---- MODULE Spec2Model ----
(***************************************************************************)
(* MediCalcLite: the DataService of src/data_service.py and the Flask      *)
(* handlers of src/app.py and src/api/server.py, as a state machine.       *)
(*                                                                         *)
(* Prices are integers; every quotient the code computes in floating point *)
(* (bin edges, normalised counts) is kept as an exact fraction <<n, d>>.   *)
(* An optional argument is a sequence: <<>> is Python's None, <<v>> is v.  *)
(***************************************************************************)
EXTENDS Integers, Sequences, FiniteSets, TLC

VARIABLES df, req, resp

vars == <<df, req, resp>>

(***************************************************************************)
(* Bounds of the model.                                                    *)
(***************************************************************************)
\* longest enumerated CSV file
MaxRows == 3
\* rows of the one long CSV file (more rows than the default limit)
BigRows == 51
\* views up to this length have every order of tied sort keys enumerated
MaxTie == 3

(***************************************************************************)
(* Python values.                                                          *)
(***************************************************************************)
None == <<>>

Some(v) == <<v>>

\* bool(x) of an optional string: None and "" are falsy
TruthyStr(o) == o # None /\ o[1] # ""

\* bool(x) of an optional int: None and 0 are falsy
TruthyInt(o) == o # None /\ o[1] # 0

Min2(a, b) == IF a <= b THEN a ELSE b

Max2(a, b) == IF a >= b THEN a ELSE b

Range(s) == {s[i] : i \in 1..Len(s)}

(***************************************************************************)
(* The table.                                                              *)
(***************************************************************************)
Columns ==
  {"nombre_comercial", "principio_activo", "fabricante", "concentracion",
   "canal", "unidad_de_dispensacion", "precio_por_tableta"}

\* rank of a cell for ordering: prices by value, text lexicographically
TextRank(t) ==
  CASE t = "A" -> 1 [] t = "B" -> 2 [] t = "M" -> 3 [] t = "N" -> 4
    [] t = "c1" -> 5 [] t = "c2" -> 6 [] t = "k1" -> 7 [] t = "k2" -> 8
    [] t = "n1" -> 9 [] t = "n2" -> 10 [] t = "n3" -> 11
    [] t = "u1" -> 12 [] t = "u2" -> 13 [] OTHER -> 0

KeyOf(col, v) == IF col = "precio_por_tableta" THEN v ELSE TextRank(v)

Key(row, col) == KeyOf(col, row[col])

\* a line of the CSV file; precio_por_tableta is <<n>> when the text is the
\* number n and <<>> when the text is not a number
RawRow(n, a, f, c, k, u, p) ==
  [nombre_comercial |-> n, principio_activo |-> a, fabricante |-> f,
   concentracion |-> c, canal |-> k, unidad_de_dispensacion |-> u,
   precio_por_tableta |-> p]

RawPool ==
  {RawRow("n1", "A", "M", "c1", "k1", "u1", <<1>>),
   RawRow("n2", "A", "N", "c1", "k2", "u1", <<2>>),
   RawRow("n3", "B", "M", "c2", "k1", "u2", <<3>>),
   RawRow("n1", "A", "M", "c1", "k1", "u1", <<>>)}

\* a long file: BigRows lines of one ingredient, all prices different
BigFile ==
  [i \in 1..BigRows |->
     RawRow("n1", "A", IF i % 2 = 0 THEN "M" ELSE "N", "c1", "k1", "u1", <<i>>)]

\* the file of the histogram scenario: prices 10, 20, 30, 40, 50
ScenarioFile ==
  [i \in 1..5 |-> RawRow("n1", "A", "M", "c1", "k1", "u1", <<10 * i>>)]

\* a file of groups: five lines of manufacturer M (prices 1, 2, 3, 4, 10) and
\* five of N (5 .. 9) for ingredient A, and two lines of N for ingredient B
GroupFile ==
  [i \in 1..12 |->
     IF i <= 5 THEN RawRow("n1", "A", "M", "c1", "k1", "u1", <<IF i = 5 THEN 10 ELSE i>>)
     ELSE IF i <= 10 THEN RawRow("n2", "A", "N", "c1", "k1", "u1", <<i - 1>>)
     ELSE RawRow("n3", "B", "N", "c2", "k2", "u2", <<i + 9>>)]

Files ==
  UNION {[1..n -> RawPool] : n \in 0..MaxRows}
    \cup {BigFile, ScenarioFile, GroupFile}

\* what os.path.exists and pd.read_csv see: no file, or a file's lines
Sources == {None} \cup {Some(f) : f \in Files}

\* pd.DataFrame(): no columns, no rows
EmptyFrame == [cols |-> {}, rows |-> <<>>]

\* a loaded row: the CSV line, its price as a number, its index as id
Row(raw, i) ==
  [id |-> i - 1,
   nombre_comercial |-> raw.nombre_comercial,
   principio_activo |-> raw.principio_activo,
   fabricante |-> raw.fabricante,
   concentracion |-> raw.concentracion,
   canal |-> raw.canal,
   unidad_de_dispensacion |-> raw.unidad_de_dispensacion,
   precio_por_tableta |-> raw.precio_por_tableta[1]]

\* to_numeric(errors='coerce') then dropna: lines without a numeric price go
RECURSIVE DropNaN(_, _)
DropNaN(file, i) ==
  IF i > Len(file) THEN <<>>
  ELSE IF file[i].precio_por_tableta = <<>> THEN DropNaN(file, i + 1)
  ELSE <<Row(file[i], i)>> \o DropNaN(file, i + 1)

\* load_data without the dropna: a line whose price is not a number stays,
\* with the NaN the coercion gave it, written <<0, 0>>
load_data_NoDrop(src) ==
  IF src # None
    THEN [cols |-> Columns,
          rows |-> [i \in 1..Len(src[1]) |->
                      IF src[1][i].precio_por_tableta = <<>>
                        THEN [Row([src[1][i] EXCEPT !.precio_por_tableta = <<0>>], i)
                                EXCEPT !.precio_por_tableta = <<0, 0>>]
                        ELSE Row(src[1][i], i)]]
    ELSE EmptyFrame

load_data(src) ==
  IF src # None
    THEN [cols |-> Columns, rows |-> DropNaN(src[1], 1)]
    ELSE EmptyFrame

\* DataFrame.empty
IsEmpty(frame) == frame.cols = {} \/ Len(frame.rows) = 0

Prices(rows) == [i \in 1..Len(rows) |-> rows[i].precio_por_tableta]

(***************************************************************************)
(* DataService.filter_data                                                 *)
(***************************************************************************)
Ok(frame) == [status |-> "ok", frame |-> frame]

Raise(e) == [status |-> "raise", error |-> e]

\* filtered_df[filtered_df[col] == value], when the argument is truthy
EqMask(st, arg, col) ==
  IF st.status # "ok" \/ ~TruthyStr(arg) THEN st
  ELSE IF col \notin st.frame.cols THEN Raise("KeyError")
  ELSE LET Keep(r) == r[col] = arg[1]
       IN  Ok([st.frame EXCEPT !.rows = SelectSeq(@, Keep)])

\* the lower bound taken as exclusive
MinMask_Strict(st, arg) ==
  IF st.status # "ok" \/ arg = None THEN st
  ELSE IF "precio_por_tableta" \notin st.frame.cols THEN Raise("KeyError")
  ELSE LET Keep(r) == r.precio_por_tableta > arg[1]
       IN  Ok([st.frame EXCEPT !.rows = SelectSeq(@, Keep)])

\* filtered_df[filtered_df['precio_por_tableta'] >= min_price]
MinMask(st, arg) ==
  IF st.status # "ok" \/ arg = None THEN st
  ELSE IF "precio_por_tableta" \notin st.frame.cols THEN Raise("KeyError")
  ELSE LET Keep(r) == r.precio_por_tableta >= arg[1]
       IN  Ok([st.frame EXCEPT !.rows = SelectSeq(@, Keep)])

\* filtered_df[filtered_df['precio_por_tableta'] <= max_price]
MaxMask(st, arg) ==
  IF st.status # "ok" \/ arg = None THEN st
  ELSE IF "precio_por_tableta" \notin st.frame.cols THEN Raise("KeyError")
  ELSE LET Keep(r) == r.precio_por_tableta <= arg[1]
       IN  Ok([st.frame EXCEPT !.rows = SelectSeq(@, Keep)])

\* str.lower() on the sort orders callers send
Lower(t) ==
  CASE t = "ASC" -> "asc" [] t = "Asc" -> "asc" [] t = "DESC" -> "desc"
    [] OTHER -> t

\* the comparison without lower()
Ascending_CaseSensitive(sort_order) == sort_order = "asc"

\* ascending=(sort_order.lower() == 'asc')
Ascending(sort_order) == Lower(sort_order) = "asc"

\* a before b in a sort on col
Before(a, b, col, asc) ==
  IF asc THEN Key(a, col) <= Key(b, col) ELSE Key(a, col) >= Key(b, col)

\* row r put into the ordered sequence s, after the rows of equal key
\* (last = TRUE) or before them
RECURSIVE Insert(_, _, _, _, _)
Insert(r, s, col, asc, last) ==
  IF s = <<>> THEN <<r>>
  ELSE IF (IF last THEN Before(Head(s), r, col, asc)
                   ELSE ~Before(r, Head(s), col, asc))
         THEN <<Head(s)>> \o Insert(r, Tail(s), col, asc, last)
         ELSE <<r>> \o s

\* rows ordered on col, rows of equal key in their order in rows
\* (stable = TRUE) or in the reverse of it
RECURSIVE OneOrder(_, _, _, _, _)
OneOrder(rows, n, col, asc, stable) ==
  IF n = 0 THEN <<>>
  ELSE Insert(rows[n], OneOrder(rows, n - 1, col, asc, stable), col, asc, stable)

\* every order of the rows at idx that is ordered on col
RECURSIVE AllOrders(_, _, _, _)
AllOrders(rows, idx, col, asc) ==
  IF idx = {} THEN {<<>>}
  ELSE LET best == {i \in idx : \A j \in idx : Before(rows[i], rows[j], col, asc)}
       IN  UNION {{<<rows[i]>> \o t : t \in AllOrders(rows, idx \ {i}, col, asc)} :
                    i \in best}

\* DataFrame.sort_values(by=col, ascending=asc) with the default quicksort,
\* which is not stable: rows with equal keys come out in an order the numpy
\* build decides.  Every such order is an outcome for short views; for long
\* ones the two extreme orders stand for them.
sort_values(rows, col, asc) ==
  IF Len(rows) <= MaxTie
    THEN AllOrders(rows, 1..Len(rows), col, asc)
    ELSE {OneOrder(rows, Len(rows), col, asc, TRUE),
          OneOrder(rows, Len(rows), col, asc, FALSE)}

\* DataFrame.head(n): the first n rows, or all but the last -n when n < 0
head(rows, n) ==
  IF n >= 0 THEN SubSeq(rows, 1, Min2(n, Len(rows)))
  ELSE SubSeq(rows, 1, Max2(Len(rows) + n, 0))

\* the limit forgotten
ApplyLimit_Unlimited(rows, limit) == rows

\* if limit: filtered_df = filtered_df.head(limit)
ApplyLimit(rows, limit) ==
  IF TruthyInt(limit) THEN head(rows, limit[1]) ELSE rows

\* the arguments of filter_data and their defaults
DefaultLimit == 50

FilterArgs ==
  [active_ingredient |-> None, manufacturer |-> None, concentration |-> None,
   channel |-> None, dispensing_unit |-> None, min_price |-> None,
   max_price |-> None, sort_by |-> "precio_por_tableta", sort_order |-> "asc",
   limit |-> Some(DefaultLimit)]

\* the masks of filter_data, in the order of the code
Masked(d, p) ==
  MaxMask(
    MinMask(
      EqMask(
        EqMask(
          EqMask(
            EqMask(
              EqMask(Ok(d), p.active_ingredient, "principio_activo"),
              p.manufacturer, "fabricante"),
            p.concentration, "concentracion"),
          p.channel, "canal"),
        p.dispensing_unit, "unidad_de_dispensacion"),
      p.min_price),
    p.max_price)

\* the outcomes of filter_data(**p) on the Dataset d: an exception, or the
\* view returned (rows) with the local value after the sort step (sorted)
filter_data(d, p) ==
  LET m == Masked(d, p)
  IN  IF m.status # "ok" THEN {m}
      ELSE LET orders == IF p.sort_by \in m.frame.cols
                           THEN sort_values(m.frame.rows, p.sort_by,
                                            Ascending(p.sort_order))
                           ELSE {m.frame.rows}
           IN  {[status |-> "ok", cols |-> m.frame.cols, sorted |-> s,
                 rows |-> ApplyLimit(s, p.limit)] : s \in orders}

(***************************************************************************)
(* Numbers: a float is an exact fraction <<n, d>> with d > 0; NaN is 0/0.  *)
(***************************************************************************)
Frac(n, d) == <<n, d>>

NaN == <<0, 0>>

IsNaN(x) == x[2] = 0

FracEq(x, y) == ~IsNaN(x) /\ ~IsNaN(y) /\ x[1] * y[2] = y[1] * x[2]

FracLt(x, y) == ~IsNaN(x) /\ ~IsNaN(y) /\ x[1] * y[2] < y[1] * x[2]

FracLe(x, y) == ~IsNaN(x) /\ ~IsNaN(y) /\ x[1] * y[2] <= y[1] * x[2]

RECURSIVE Sum(_, _)
Sum(s, n) == IF n = 0 THEN 0 ELSE s[n] + Sum(s, n - 1)

RECURSIVE SumSq(_, _)
SumSq(s, n) == IF n = 0 THEN 0 ELSE s[n] * s[n] + SumSq(s, n - 1)

RECURSIVE MinOf(_, _)
MinOf(s, n) == IF n = 1 THEN s[1] ELSE Min2(s[n], MinOf(s, n - 1))

RECURSIVE MaxOf(_, _)
MaxOf(s, n) == IF n = 1 THEN s[1] ELSE Max2(s[n], MaxOf(s, n - 1))

\* Series.min(), .max(), .mean(): NaN on an empty series
SeriesMin(s) == IF Len(s) = 0 THEN NaN ELSE Frac(MinOf(s, Len(s)), 1)

SeriesMax(s) == IF Len(s) = 0 THEN NaN ELSE Frac(MaxOf(s, Len(s)), 1)

SeriesMean(s) == IF Len(s) = 0 THEN NaN ELSE Frac(Sum(s, Len(s)), Len(s))

(***************************************************************************)
(* DataService.get_histogram_data                                          *)
(***************************************************************************)
\* numpy _get_outer_edges, doubled so that the halves stay integers:
\* (0, 1) for no data, (min - 0.5, max + 0.5) when min = max
OuterEdges2(a) ==
  IF Len(a) = 0 THEN <<0, 2>>
  ELSE LET lo == MinOf(a, Len(a))
           hi == MaxOf(a, Len(a))
       IN  IF lo = hi THEN <<2 * lo - 1, 2 * hi + 1>> ELSE <<2 * lo, 2 * hi>>

\* linspace without its end point
BinEdge_NoEndpoint(e2, bins, i) ==
  Frac(e2[1] * (bins + 1) + i * (e2[2] - e2[1]), 2 * (bins + 1))

\* np.linspace(first, last, bins + 1)[i], i = 0..bins
BinEdge(e2, bins, i) == Frac(e2[1] * bins + i * (e2[2] - e2[1]), 2 * bins)

\* the last edge left out of the last bin
BinIndex_NoClamp(x, e2, bins) ==
  ((2 * x - e2[1]) * bins) \div (e2[2] - e2[1])

\* the bin numpy puts x in: the scaled offset truncated, the last edge
\* counted in the last bin
BinIndex(x, e2, bins) ==
  LET f == ((2 * x - e2[1]) * bins) \div (e2[2] - e2[1])
  IN  IF f = bins THEN bins - 1 ELSE f

\* bins closed on the right instead of the left
np_histogram_RightClosed(a, bins) ==
  LET e2 == OuterEdges2(a)
      idx(x) == Max2((((2 * x - e2[1]) * bins) - 1) \div (e2[2] - e2[1]), 0)
  IN  [hist |-> [i \in 1..bins |->
                   Cardinality({j \in 1..Len(a) : idx(a[j]) = i - 1})],
       bin_edges |-> [i \in 1..(bins + 1) |-> BinEdge(e2, bins, i - 1)]]

\* np.histogram(a, bins=bins) for an integer bins >= 1
np_histogram(a, bins) ==
  LET e2 == OuterEdges2(a)
  IN  [hist |-> [i \in 1..bins |->
                   Cardinality({j \in 1..Len(a) : BinIndex(a[j], e2, bins) = i - 1})],
       bin_edges |-> [i \in 1..(bins + 1) |-> BinEdge(e2, bins, i - 1)]]

\* the list of bins get_histogram_data formats from a view's rows
HistogramOf(rows, bins) ==
  LET h == np_histogram(Prices(rows), bins)
  IN  [i \in 1..bins |->
         [binStart |-> h.bin_edges[i],
          binEnd |-> h.bin_edges[i + 1],
          count |-> h.hist[i],
          normalizedCount |-> IF Len(rows) > 0 THEN Frac(h.hist[i], Len(rows))
                              ELSE Frac(0, 1)]]

\* get_histogram_data(active_ingredient, manufacturer, bins): the outcomes
get_histogram_data(d, ai, mf, bins) ==
  {IF v.status # "ok" THEN v
   ELSE IF "precio_por_tableta" \notin v.cols THEN Raise("KeyError")
   ELSE IF bins < 1 THEN Raise("ValueError")
   ELSE [status |-> "ok", view |-> v.rows, histogram |-> HistogramOf(v.rows, bins)] :
     v \in filter_data(d, [FilterArgs EXCEPT !.active_ingredient = ai,
                                            !.manufacturer = mf])}

(***************************************************************************)
(* DataService.get_summary_stats                                           *)
(***************************************************************************)
\* Series.median(): the middle of the ordered values
SeriesMedian(s) ==
  IF Len(s) = 0 THEN NaN
  ELSE LET n == Len(s)
           rows == [i \in 1..n |-> [precio_por_tableta |-> s[i]]]
           o == OneOrder(rows, n, "precio_por_tableta", TRUE, TRUE)
       IN  IF n % 2 = 1 THEN Frac(o[(n + 1) \div 2].precio_por_tableta, 1)
           ELSE Frac(o[n \div 2].precio_por_tableta
                       + o[n \div 2 + 1].precio_por_tableta, 2)

\* Series.std(): the square root of the sample variance (n - 1), kept as
\* <<"sqrt", variance>>; NaN below two values
SeriesStd(s) ==
  LET n == Len(s)
  IN  IF n < 2 THEN <<"sqrt", NaN>>
      ELSE <<"sqrt", Frac(n * SumSq(s, n) - Sum(s, n) * Sum(s, n), n * (n - 1))>>

\* the values of a column in a view, each once, in sort order (groupby keys)
GroupKeys(rows, col) ==
  LET vals == {rows[i][col] : i \in 1..Len(rows)}
      pos(v) == Cardinality({w \in vals : KeyOf(col, w) < KeyOf(col, v)}) + 1
  IN  [i \in 1..Cardinality(vals) |-> CHOOSE v \in vals : pos(v) = i]

GroupRows(rows, col, v) ==
  LET Keep(r) == r[col] = v IN SelectSeq(rows, Keep)

\* groupby(col).agg(count, min, max, mean) as records
Breakdown(rows, col, label) ==
  LET keys == GroupKeys(rows, col)
  IN  [i \in 1..Len(keys) |->
         LET g == Prices(GroupRows(rows, col, keys[i]))
         IN  [axis |-> label, name |-> keys[i], count |-> Len(g),
              min_price |-> SeriesMin(g), max_price |-> SeriesMax(g),
              avg_price |-> SeriesMean(g)]]

\* the second breakdown made only when the first one is not
SummaryOf_OneAxis(rows, ai, mf) ==
  LET a == Prices(rows)
  IN  [count |-> Len(rows),
       price_stats |-> [min |-> SeriesMin(a), max |-> SeriesMax(a),
                        mean |-> SeriesMean(a), median |-> SeriesMedian(a),
                        std |-> SeriesStd(a)],
       manufacturers |-> IF TruthyStr(ai)
                           THEN Some(Breakdown(rows, "fabricante", "manufacturer"))
                           ELSE None,
       active_ingredients |-> IF TruthyStr(mf) /\ ~TruthyStr(ai)
                                THEN Some(Breakdown(rows, "principio_activo",
                                                    "active_ingredient"))
                                ELSE None]

\* the stats dictionary built from a view; an absent key is None
SummaryOf(rows, ai, mf) ==
  LET a == Prices(rows)
  IN  [count |-> Len(rows),
       price_stats |-> [min |-> SeriesMin(a), max |-> SeriesMax(a),
                        mean |-> SeriesMean(a), median |-> SeriesMedian(a),
                        std |-> SeriesStd(a)],
       manufacturers |-> IF TruthyStr(ai)
                           THEN Some(Breakdown(rows, "fabricante", "manufacturer"))
                           ELSE None,
       active_ingredients |-> IF TruthyStr(mf)
                                THEN Some(Breakdown(rows, "principio_activo",
                                                    "active_ingredient"))
                                ELSE None]

\* get_summary_stats(active_ingredient, manufacturer): the outcomes
get_summary_stats(d, ai, mf) ==
  {IF v.status # "ok" THEN v
   ELSE IF "precio_por_tableta" \notin v.cols THEN Raise("KeyError")
   ELSE [status |-> "ok", view |-> v.rows, stats |-> SummaryOf(v.rows, ai, mf)] :
     v \in filter_data(d, [FilterArgs EXCEPT !.active_ingredient = ai,
                                            !.manufacturer = mf])}

(***************************************************************************)
(* DataService.get_boxplot_data                                            *)
(***************************************************************************)
MinGroupSize == 5

\* the value below the position, without interpolation
Quantile4_Lower(o, q) == Frac(o[((Len(o) - 1) * q) \div 4 + 1], 1)

\* Series.quantile(q / 4) of ordered values o: linear interpolation between
\* the two values around position (n - 1) * q / 4
Quantile4(o, q) ==
  LET h == (Len(o) - 1) * q
      lo == h \div 4 + 1
      hi == IF lo < Len(o) THEN lo + 1 ELSE lo
  IN  Frac(4 * o[lo] + (h % 4) * (o[hi] - o[lo]), 4)

\* the dictionary of one group
BoxOf(name, g) ==
  LET a == Prices(g)
      rows == [i \in 1..Len(a) |-> [precio_por_tableta |-> a[i]]]
      o == Prices(OneOrder(rows, Len(a), "precio_por_tableta", TRUE, TRUE))
  IN  [name |-> name, min |-> SeriesMin(o), q1 |-> Quantile4(o, 1),
       median |-> SeriesMedian(o), q3 |-> Quantile4(o, 3),
       max |-> SeriesMax(o), count |-> Len(g)]

\* the groups in key order, none skipped
RECURSIVE Boxes_KeepSmall(_, _, _, _)
Boxes_KeepSmall(rows, col, keys, i) ==
  IF i > Len(keys) THEN <<>>
  ELSE <<BoxOf(keys[i], GroupRows(rows, col, keys[i]))>>
         \o Boxes_KeepSmall(rows, col, keys, i + 1)

\* the groups in key order, those below MinGroupSize skipped
RECURSIVE Boxes(_, _, _, _)
Boxes(rows, col, keys, i) ==
  IF i > Len(keys) THEN <<>>
  ELSE LET g == GroupRows(rows, col, keys[i])
       IN  (IF Len(g) < MinGroupSize THEN <<>> ELSE <<BoxOf(keys[i], g)>>)
             \o Boxes(rows, col, keys, i + 1)

\* box b put into a list ordered on median, largest first, after its equals
RECURSIVE InsertBox(_, _)
InsertBox(b, s) ==
  IF s = <<>> THEN <<b>>
  ELSE IF FracLe(b.median, Head(s).median)
         THEN <<Head(s)>> \o InsertBox(b, Tail(s))
         ELSE <<b>> \o s

\* list.sort(key=median, reverse=True): stable
RECURSIVE SortBoxes(_, _)
SortBoxes(s, n) ==
  IF n = 0 THEN <<>> ELSE InsertBox(s[n], SortBoxes(s, n - 1))

\* boxplot_data[:limit]
Slice(s, limit) ==
  IF limit = None THEN s
  ELSE IF limit[1] >= 0 THEN SubSeq(s, 1, Min2(limit[1], Len(s)))
  ELSE SubSeq(s, 1, Max2(Len(s) + limit[1], 0))

\* an unknown column answered with an empty list of groups
get_boxplot_data_EmptyForUnknown(d, group_by, ai, limit) ==
  {IF v.status # "ok" THEN v
   ELSE [status |-> "ok", view |-> v.rows,
         boxplot |->
           IF group_by \notin v.cols THEN <<>>
           ELSE LET b == Boxes(v.rows, group_by, GroupKeys(v.rows, group_by), 1)
                IN  Slice(SortBoxes(b, Len(b)), limit)] :
     v \in filter_data(d, [FilterArgs EXCEPT !.active_ingredient = ai])}

\* get_boxplot_data(group_by, active_ingredient, limit): the outcomes;
\* "error" is the dictionary {'error': ...} the method returns
get_boxplot_data(d, group_by, ai, limit) ==
  {IF v.status # "ok" THEN v
   ELSE IF group_by \notin v.cols
     THEN [status |-> "error", view |-> v.rows,
           error |-> <<"Column", group_by, "not found">>]
   ELSE [status |-> "ok", view |-> v.rows,
         boxplot |->
           LET b == Boxes(v.rows, group_by, GroupKeys(v.rows, group_by), 1)
           IN  Slice(SortBoxes(b, Len(b)), limit)] :
     v \in filter_data(d, [FilterArgs EXCEPT !.active_ingredient = ai])}

(***************************************************************************)
(* Assignment to a column of a DataFrame object.                           *)
(***************************************************************************)
\* the two DataFrame objects a method holds, the Dataset and its view, and
\* the exception an assignment raised, if any
Frames(d, rows, cols) ==
  [self_df |-> d, filtered_df |-> [cols |-> cols, rows |-> rows], error |-> None]

WithField(r, col, v) ==
  [x \in DOMAIN r \cup {col} |-> IF x = col THEN v ELSE r[x]]

\* frames[name][col] = vals: a new or replaced column of that object; values
\* that do not match its length raise ValueError and assign nothing
SetItem(frames, name, col, vals) ==
  IF Len(vals) # Len(frames[name].rows)
    THEN [frames EXCEPT !.error = Some("ValueError")]
    ELSE [frames EXCEPT ![name] =
            [cols |-> @.cols \cup {col},
             rows |-> [i \in 1..Len(@.rows) |-> WithField(@.rows[i], col, vals[i])]]]

(***************************************************************************)
(* DataService.get_clustering                                              *)
(***************************************************************************)
\* max_iter of KMeans
KMeansMaxIter == 300

Abs(x) == IF x < 0 THEN 0 - x ELSE x

\* |x - c| < |x - e| for an integer x and fractions c, e (the squared
\* distances of the code compare alike)
Nearer(x, c, e) ==
  Abs(x * c[2] - c[1]) * e[2] < Abs(x * e[2] - e[1]) * c[2]

\* the assignment step: the index (0-based) of the nearest centre, the first
\* one among equally near centres
Nearest(x, centers) ==
  CHOOSE i \in 1..Len(centers) :
    /\ \A j \in 1..Len(centers) : ~Nearer(x, centers[j], centers[i])
    /\ \A j \in 1..(i - 1) : Nearer(x, centers[i], centers[j])

Assign(a, centers) == [i \in 1..Len(a) |-> Nearest(a[i], centers) - 1]

\* the update step: each centre the mean of its points; a centre without
\* points stays
Update(a, labels, centers) ==
  [c \in 1..Len(centers) |->
     LET pairs == [i \in 1..Len(a) |-> <<a[i], labels[i]>>]
         Own(q) == q[2] = c - 1
         mine == SelectSeq(pairs, Own)
     IN  IF mine = <<>> THEN centers[c]
         ELSE Frac(Sum([i \in 1..Len(mine) |-> mine[i][1]], Len(mine)), Len(mine))]

\* Lloyd's iterations from centers: until the labels repeat or the cap
RECURSIVE Lloyd(_, _, _, _)
Lloyd(a, centers, labels, iter) ==
  LET next == Assign(a, centers)
  IN  IF iter >= KMeansMaxIter \/ next = labels
        THEN [labels |-> next, centers |-> centers, n_iter |-> iter]
        ELSE Lloyd(a, Update(a, next, centers), next, iter + 1)

\* the positions the k-means++ seeding (random_state=42) may draw its initial
\* centres from: every position of a short view, three of a long one
SeedPositions(n) ==
  IF n <= MaxTie THEN 1..n ELSE {1, (n + 1) \div 2, n}

\* the seedings of k centres: k-means++ draws points of different value
\* while there are any
Seedings(a, k) ==
  LET all == [1..k -> SeedPositions(Len(a))]
      apart == {seed \in all : \A i, j \in 1..k : i # j => a[seed[i]] # a[seed[j]]}
  IN  IF apart # {} THEN apart ELSE all

\* KMeans(n_clusters=k, random_state=42).fit on the prices a: the outcomes
\* over the seeds; standardising is an increasing affine map, so the centres
\* are kept in price units
KMeansFits(a, k) ==
  {Lloyd(a, [c \in 1..k |-> Frac(a[seed[c]], 1)], <<>>, 0) : seed \in Seedings(a, k)}

\* the labels assigned to the Dataset itself
AssignCluster_ToDataset(frames, labels) == SetItem(frames, "self_df", "cluster", labels)

\* filtered_df['cluster'] = kmeans.fit_predict(X_scaled)
AssignCluster(frames, labels) == SetItem(frames, "filtered_df", "cluster", labels)

\* the clusters counted from 1
ClusterStats_FromOne(rows, k, centers) ==
  [c \in 1..k |->
     LET Keep(r) == r.cluster = c
         a == Prices(SelectSeq(rows, Keep))
     IN  [cluster_id |-> c, count |-> Len(a), min_price |-> SeriesMin(a),
          max_price |-> SeriesMax(a), avg_price |-> SeriesMean(a),
          center |-> centers[c]]]

\* the statistics of each cluster 0..k-1 of the labelled view
ClusterStats(rows, k, centers) ==
  [c \in 1..k |->
     LET Keep(r) == r.cluster = c - 1
         a == Prices(SelectSeq(rows, Keep))
     IN  [cluster_id |-> c - 1, count |-> Len(a), min_price |-> SeriesMin(a),
          max_price |-> SeriesMax(a), avg_price |-> SeriesMean(a),
          center |-> centers[c]]]

SampleSize == 100

DataSample(rows, col) ==
  [i \in 1..Min2(SampleSize, Len(rows)) |->
     [x \in {"id", "nombre_comercial", "principio_activo", "fabricante",
             "precio_por_tableta", col} |-> rows[i][x]]]

\* more clusters than records let through
get_clustering_NoSizeCheck(d, ai, k) ==
  UNION
    {IF v.status # "ok" THEN {[self_df |-> d, result |-> v]}
     ELSE IF "precio_por_tableta" \notin v.cols
       THEN {[self_df |-> d, result |-> Raise("KeyError")]}
     ELSE IF Len(v.rows) = 0 \/ k < 1
       THEN {[self_df |-> d, result |-> Raise("ValueError")]}
     ELSE {LET f == AssignCluster(Frames(d, v.rows, v.cols), fit.labels)
           IN  [self_df |-> f.self_df,
                result |->
                  IF f.error # None THEN Raise(f.error[1])
                  ELSE [status |-> "ok", view |-> f.filtered_df.rows,
                        cluster_stats |->
                          ClusterStats(f.filtered_df.rows, k, fit.centers),
                        data_sample |-> DataSample(f.filtered_df.rows, "cluster")]] :
             fit \in KMeansFits(Prices(v.rows), k)} :
       v \in filter_data(d, [FilterArgs EXCEPT !.active_ingredient = ai])}

\* get_clustering(active_ingredient, n_clusters): the outcomes, each with the
\* Dataset object as the call leaves it.  The method checks nothing itself:
\* StandardScaler.fit_transform raises ValueError on a view without rows, and
\* KMeans.fit_predict for n_clusters below 1 or above the number of rows.
get_clustering(d, ai, k) ==
  UNION
    {IF v.status # "ok" THEN {[self_df |-> d, result |-> v]}
     ELSE IF "precio_por_tableta" \notin v.cols
       THEN {[self_df |-> d, result |-> Raise("KeyError")]}
     ELSE IF Len(v.rows) = 0 \/ k < 1 \/ k > Len(v.rows)
       THEN {[self_df |-> d, result |-> Raise("ValueError")]}
     ELSE {LET f == AssignCluster(Frames(d, v.rows, v.cols), fit.labels)
           IN  [self_df |-> f.self_df,
                result |->
                  IF f.error # None THEN Raise(f.error[1])
                  ELSE IF "cluster" \notin f.filtered_df.cols THEN Raise("KeyError")
                  ELSE [status |-> "ok", view |-> f.filtered_df.rows,
                        cluster_stats |->
                          ClusterStats(f.filtered_df.rows, k, fit.centers),
                        data_sample |-> DataSample(f.filtered_df.rows, "cluster")]] :
             fit \in KMeansFits(Prices(v.rows), k)} :
       v \in filter_data(d, [FilterArgs EXCEPT !.active_ingredient = ai])}

(***************************************************************************)
(* DataService.get_anomalies                                               *)
(***************************************************************************)
\* largest isolation score enumerated for a short view
MaxScore == 2

\* the score_samples of the forest (random_state=42) on the prices a, as a
\* function of the price: every function into 1..MaxScore when the view has
\* few prices, three shapes (rising, falling, flat) when it has many
ScoreFunctions(a) ==
  LET vals == Range(a)
  IN  IF Cardinality(vals) <= MaxTie THEN [vals -> 1..MaxScore]
      ELSE {[x \in vals |-> x], [x \in vals |-> 0 - x], [x \in vals |-> 0]}

\* np.percentile(scores, c) for c in percent, times 100: linear
\* interpolation between the two ordered scores around (n - 1) * c / 100
Percentile100(scores, c) ==
  LET n == Len(scores)
      rows == [i \in 1..n |-> [precio_por_tableta |-> scores[i]]]
      o == Prices(OneOrder(rows, n, "precio_por_tableta", TRUE, TRUE))
      h == (n - 1) * c
      lo == h \div 100 + 1
      hi == IF lo < n THEN lo + 1 ELSE lo
  IN  100 * o[lo] + (h % 100) * (o[hi] - o[lo])

\* IsolationForest(contamination=c).fit_predict: -1 where the score is below
\* the offset, the c-th percentile of the scores, and 1 elsewhere
FitPredict(a, score, c) ==
  LET scores == [i \in 1..Len(a) |-> score[a[i]]]
      offset100 == Percentile100(scores, c)
  IN  [i \in 1..Len(a) |-> IF 100 * scores[i] < offset100 THEN -1 ELSE 1]

\* the flags assigned to the Dataset itself
AssignAnomaly_ToDataset(frames, flags) == SetItem(frames, "self_df", "anomaly", flags)

\* filtered_df['anomaly'] = isolation_forest.fit_predict(X_scaled)
AssignAnomaly(frames, flags) == SetItem(frames, "filtered_df", "anomaly", flags)

\* filtered_df['anomaly'] = filtered_df['anomaly'].map({1: 0, -1: 1})
MapAnomaly(frames) ==
  SetItem(frames, "filtered_df", "anomaly",
          [i \in 1..Len(frames.filtered_df.rows) |->
             IF frames.filtered_df.rows[i].anomaly = -1 THEN 1 ELSE 0])

\* mean + sign * 2 * std of the normal prices, kept as its parts; 0 without
\* normal prices
Threshold(a, sign) ==
  IF Len(a) > 0 THEN [mean |-> SeriesMean(a), sign |-> sign, std |-> SeriesStd(a)]
  ELSE [mean |-> Frac(0, 1), sign |-> sign, std |-> <<"sqrt", Frac(0, 1)>>]

AnomalyStats(rows) ==
  LET IsNormal(r) == r.anomaly = 0
      IsAnomaly(r) == r.anomaly = 1
      normal == Prices(SelectSeq(rows, IsNormal))
      anomaly == Prices(SelectSeq(rows, IsAnomaly))
  IN  [normal_count |-> Len(normal),
       anomaly_count |-> Len(anomaly),
       normal_avg_price |-> IF Len(normal) > 0 THEN SeriesMean(normal) ELSE Frac(0, 1),
       anomaly_avg_price |-> IF Len(anomaly) > 0 THEN SeriesMean(anomaly) ELSE Frac(0, 1),
       price_threshold_upper |-> Threshold(normal, 1),
       price_threshold_lower |-> Threshold(normal, -1)]

\* anomaly_data without its last row
AnomalyData_DropLast(rows) ==
  [i \in 1..(Len(rows) - 1) |->
     [id |-> rows[i].id,
      nombre_comercial |-> rows[i].nombre_comercial,
      principio_activo |-> rows[i].principio_activo,
      fabricante |-> rows[i].fabricante,
      precio_por_tableta |-> rows[i].precio_por_tableta,
      is_anomaly |-> rows[i].anomaly # 0]]

\* the rows of anomaly_data
AnomalyData(rows) ==
  [i \in 1..Len(rows) |->
     [id |-> rows[i].id,
      nombre_comercial |-> rows[i].nombre_comercial,
      principio_activo |-> rows[i].principio_activo,
      fabricante |-> rows[i].fabricante,
      precio_por_tableta |-> rows[i].precio_por_tableta,
      is_anomaly |-> rows[i].anomaly # 0]]

\* get_anomalies with an estimator that takes any contamination
get_anomalies_AnyContamination(d, ai, c) ==
  UNION
    {IF v.status # "ok" THEN {[self_df |-> d, result |-> v]}
     ELSE IF "precio_por_tableta" \notin v.cols
       THEN {[self_df |-> d, result |-> Raise("KeyError")]}
     ELSE IF Len(v.rows) = 0
       THEN {[self_df |-> d, result |-> Raise("ValueError")]}
     ELSE UNION
       {LET f == AssignAnomaly(Frames(d, v.rows, v.cols),
                               FitPredict(Prices(v.rows), score,
                                          Max2(0, Min2(c, 100))))
            g == MapAnomaly(f)
            IsAnomaly(r) == r.anomaly = 1
        IN  {[self_df |-> g.self_df,
              result |->
                [status |-> "ok", view |-> g.filtered_df.rows,
                 stats |-> AnomalyStats(g.filtered_df.rows),
                 anomaly_data |-> AnomalyData(o)]] :
               o \in sort_values(SelectSeq(g.filtered_df.rows, IsAnomaly),
                                 "precio_por_tableta", FALSE)} :
          score \in ScoreFunctions(Prices(v.rows))} :
       v \in filter_data(d, [FilterArgs EXCEPT !.active_ingredient = ai])}

\* get_anomalies(active_ingredient, contamination), contamination in
\* percent: the outcomes, each with the Dataset object as the call leaves it
get_anomalies(d, ai, c) ==
  UNION
    {IF v.status # "ok" THEN {[self_df |-> d, result |-> v]}
     ELSE IF "precio_por_tableta" \notin v.cols
       THEN {[self_df |-> d, result |-> Raise("KeyError")]}
     ELSE IF Len(v.rows) = 0 \/ c <= 0 \/ c > 50
       THEN {[self_df |-> d, result |-> Raise("ValueError")]}
     ELSE UNION
       {LET f == AssignAnomaly(Frames(d, v.rows, v.cols),
                               FitPredict(Prices(v.rows), score, c))
        IN  IF f.error # None
              THEN {[self_df |-> f.self_df, result |-> Raise(f.error[1])]}
            ELSE IF "anomaly" \notin f.filtered_df.cols
              THEN {[self_df |-> f.self_df, result |-> Raise("KeyError")]}
              ELSE LET g == MapAnomaly(f)
                       IsAnomaly(r) == r.anomaly = 1
                   IN  {[self_df |-> g.self_df,
                         result |->
                           [status |-> "ok", view |-> g.filtered_df.rows,
                            stats |-> AnomalyStats(g.filtered_df.rows),
                            anomaly_data |-> AnomalyData(o)]] :
                          o \in sort_values(SelectSeq(g.filtered_df.rows, IsAnomaly),
                                            "precio_por_tableta", FALSE)} :
          score \in ScoreFunctions(Prices(v.rows))} :
       v \in filter_data(d, [FilterArgs EXCEPT !.active_ingredient = ai])}

(***************************************************************************)
(* The Flask handlers: src/app.py delegates to the DataService, and        *)
(* src/api/server.py repeats the computations inline on its own df.        *)
(***************************************************************************)
\* a query argument read with type=int or type=float: absent, the text of a
\* number, or other text
QNum(n) == <<"number", n>>

QText == <<"text">>

\* request.args.get(name, default, type=...): the default when the argument
\* is absent or does not convert
ArgNum(o, default) == IF Len(o) = 2 THEN o[2] ELSE default

\* request.args.get(name, default) of a text argument
ArgStr(o, default) == IF o = None THEN default ELSE o[1]

\* the guard testing only for a frame without columns
NoData_NoColumns(d) == d.cols = {}

\* if df is None or df.empty
NoData(d) == IsEmpty(d)

NoDataResponse ==
  [status |-> "error", code |-> 500, message |-> "No data available",
   computed |-> FALSE]

Success(body) ==
  [status |-> "success", code |-> 200, computed |-> TRUE, body |-> body]

ErrorResponse(message) ==
  [status |-> "error", code |-> 400, message |-> message, computed |-> TRUE]

\* an exception no handler catches: Flask answers 500 without a wrapper
Unhandled(e) ==
  [status |-> "unhandled", code |-> 500, computed |-> TRUE, error |-> e]

\* Series.dropna().unique().tolist(): the values in order of first occurrence
RECURSIVE Unique(_, _, _)
Unique(rows, col, i) ==
  IF i = 0 THEN <<>>
  ELSE LET u == Unique(rows, col, i - 1)
       IN  IF rows[i][col] \in Range(u) THEN u ELSE Append(u, rows[i][col])

\* get_metadata, the same in both files
Metadata(d) ==
  IF NoData(d) THEN NoDataResponse
  ELSE Success(
    [total_records |-> Len(d.rows),
     active_ingredients |-> Unique(d.rows, "principio_activo", Len(d.rows)),
     manufacturers |-> Unique(d.rows, "fabricante", Len(d.rows)),
     concentrations |-> Unique(d.rows, "concentracion", Len(d.rows)),
     channels |-> Unique(d.rows, "canal", Len(d.rows)),
     dispensing_units |-> Unique(d.rows, "unidad_de_dispensacion", Len(d.rows)),
     price_range |-> [min |-> SeriesMin(Prices(d.rows)),
                      max |-> SeriesMax(Prices(d.rows)),
                      avg |-> SeriesMean(Prices(d.rows))],
     columns |-> d.cols])

\* the arguments get_data reads from the query
DataArgs(q) ==
  [active_ingredient |-> q.active_ingredient, manufacturer |-> q.manufacturer,
   concentration |-> q.concentration, channel |-> q.channel,
   dispensing_unit |-> q.dispensing_unit,
   min_price |-> IF Len(q.min_price) = 2 THEN Some(q.min_price[2]) ELSE None,
   max_price |-> IF Len(q.max_price) = 2 THEN Some(q.max_price[2]) ELSE None,
   sort_by |-> ArgStr(q.sort_by, "precio_por_tableta"),
   sort_order |-> ArgStr(q.sort_order, "asc"),
   limit |-> Some(ArgNum(q.limit, DefaultLimit))]

\* the response to a DataService result that is a view or an exception
Wrap(out, body) ==
  IF out.status = "ok" THEN Success(body) ELSE Unhandled(out.error)

\* get_data: app.py calls filter_data, server.py repeats its statements
\* (both files)
get_data(d, q) ==
  IF NoData(d) THEN {NoDataResponse}
  ELSE {Wrap(v, IF v.status = "ok" THEN [count |-> Len(v.rows), data |-> v.rows]
                 ELSE None) : v \in filter_data(d, DataArgs(q))}

\* the filtering server.py inlines: the two equality masks, no sort, no limit
InlineFilter(d, ai, mf) ==
  LET m == EqMask(EqMask(Ok(d), ai, "principio_activo"), mf, "fabricante")
  IN  IF m.status # "ok" THEN m
      ELSE [status |-> "ok", cols |-> m.frame.cols, rows |-> m.frame.rows]

\* get_summary of app.py
app_get_summary(d, q) ==
  IF NoData(d) THEN {NoDataResponse}
  ELSE {Wrap(o, IF o.status = "ok" THEN [summary |-> o.stats] ELSE None) :
          o \in get_summary_stats(d, q.active_ingredient, q.manufacturer)}

\* get_summary of server.py
server_get_summary(d, q) ==
  IF NoData(d) THEN {NoDataResponse}
  ELSE LET v == InlineFilter(d, q.active_ingredient, q.manufacturer)
       IN  {Success([summary |->
                       SummaryOf(v.rows, q.active_ingredient, q.manufacturer)])}

\* get_histogram of app.py
app_get_histogram(d, q) ==
  IF NoData(d) THEN {NoDataResponse}
  ELSE {Wrap(o, IF o.status = "ok" THEN [histogram |-> o.histogram] ELSE None) :
          o \in get_histogram_data(d, q.active_ingredient, q.manufacturer,
                                   ArgNum(q.bins, 10))}

\* get_histogram of server.py
server_get_histogram(d, q) ==
  IF NoData(d) THEN {NoDataResponse}
  ELSE LET v == InlineFilter(d, q.active_ingredient, q.manufacturer)
           bins == ArgNum(q.bins, 10)
       IN  IF bins < 1 THEN {Unhandled("ValueError")}
           ELSE {Success([histogram |-> HistogramOf(v.rows, bins)])}

\* get_boxplot of app.py
app_get_boxplot(d, q) ==
  IF NoData(d) THEN {NoDataResponse}
  ELSE {IF o.status = "error" THEN ErrorResponse(o.error)
        ELSE Wrap(o, IF o.status = "ok" THEN [boxplot |-> o.boxplot] ELSE None) :
          o \in get_boxplot_data(d, ArgStr(q.group_by, "fabricante"),
                                 q.active_ingredient, Some(ArgNum(q.limit, 10)))}

\* get_boxplot of server.py
server_get_boxplot(d, q) ==
  IF NoData(d) THEN {NoDataResponse}
  ELSE LET group_by == ArgStr(q.group_by, "fabricante")
           v == InlineFilter(d, IF group_by # "principio_activo"
                                  THEN q.active_ingredient ELSE None, None)
       IN  IF group_by \notin v.cols
             THEN {ErrorResponse(<<"Column", group_by, "not found">>)}
             ELSE LET b == Boxes(v.rows, group_by, GroupKeys(v.rows, group_by), 1)
                  IN  {Success([boxplot |->
                                  Slice(SortBoxes(b, Len(b)),
                                        Some(ArgNum(q.limit, 10)))])}

\* get_clusters of app.py, with the Dataset object as the call leaves it
app_get_clusters(d, q) ==
  IF NoData(d) THEN {[self_df |-> d, response |-> NoDataResponse]}
  ELSE {[self_df |-> o.self_df,
         response |->
           Wrap(o.result,
                IF o.result.status = "ok"
                  THEN [clusters |-> o.result.cluster_stats,
                        data_sample |-> o.result.data_sample]
                  ELSE None)] :
          o \in get_clustering(d, q.active_ingredient, ArgNum(q.n_clusters, 3))}

\* get_clusters of server.py
server_get_clusters(d, q) ==
  IF NoData(d) THEN {[self_df |-> d, response |-> NoDataResponse]}
  ELSE LET v == InlineFilter(d, q.active_ingredient, None)
           k == ArgNum(q.n_clusters, 3)
       IN  IF Len(v.rows) = 0 \/ k < 1 \/ k > Len(v.rows)
             THEN {[self_df |-> d, response |-> Unhandled("ValueError")]}
             ELSE {LET f == AssignCluster(Frames(d, v.rows, v.cols), fit.labels)
                   IN  [self_df |-> f.self_df,
                        response |->
                          IF f.error # None THEN Unhandled(f.error[1])
                          ELSE IF "cluster" \notin f.filtered_df.cols
                            THEN Unhandled("KeyError")
                          ELSE Success(
                            [clusters |->
                               ClusterStats(f.filtered_df.rows, k, fit.centers),
                             data_sample |->
                               DataSample(f.filtered_df.rows, "cluster")])] :
                     fit \in KMeansFits(Prices(v.rows), k)}

\* get_anomalies of app.py; the contamination is read in percent
app_get_anomalies(d, q) ==
  IF NoData(d) THEN {[self_df |-> d, response |-> NoDataResponse]}
  ELSE {[self_df |-> o.self_df,
         response |->
           Wrap(o.result,
                IF o.result.status = "ok"
                  THEN [statistics |-> o.result.stats,
                        anomalies |-> o.result.anomaly_data]
                  ELSE None)] :
          o \in get_anomalies(d, q.active_ingredient, ArgNum(q.contamination, 5))}

\* get_anomalies of server.py
server_get_anomalies(d, q) ==
  IF NoData(d) THEN {[self_df |-> d, response |-> NoDataResponse]}
  ELSE LET v == InlineFilter(d, q.active_ingredient, None)
           c == ArgNum(q.contamination, 5)
       IN  IF Len(v.rows) = 0 \/ c <= 0 \/ c > 50
             THEN {[self_df |-> d, response |-> Unhandled("ValueError")]}
             ELSE UNION
               {LET f == AssignAnomaly(Frames(d, v.rows, v.cols),
                                       FitPredict(Prices(v.rows), score, c))
                IN  IF f.error # None
                      THEN {[self_df |-> f.self_df,
                             response |-> Unhandled(f.error[1])]}
                    ELSE IF "anomaly" \notin f.filtered_df.cols
                      THEN {[self_df |-> f.self_df,
                             response |-> Unhandled("KeyError")]}
                    ELSE LET g == MapAnomaly(f)
                             IsAnomaly(r) == r.anomaly = 1
                         IN  {[self_df |-> g.self_df,
                               response |->
                                 Success([statistics |->
                                            AnomalyStats(g.filtered_df.rows),
                                          anomalies |-> AnomalyData(o)])] :
                                o \in sort_values(
                                        SelectSeq(g.filtered_df.rows, IsAnomaly),
                                        "precio_por_tableta", FALSE)} :
                  score \in ScoreFunctions(Prices(v.rows))}

(***************************************************************************)
(* Calls.                                                                  *)
(***************************************************************************)
EqSlice ==
  {[FilterArgs EXCEPT !.active_ingredient = a, !.manufacturer = f,
                      !.concentration = c, !.channel = k,
                      !.dispensing_unit = u, !.limit = None] :
     a \in {None, Some(""), Some("A"), Some("B"), Some("a")},
     f \in {None, Some("M")},
     c \in {None, Some("c1")},
     k \in {None, Some("k2")},
     u \in {None, Some("u1")}}

OrderSlice ==
  {[FilterArgs EXCEPT !.min_price = lo, !.max_price = hi, !.sort_by = by,
                      !.sort_order = ord, !.limit = n] :
     lo \in {None, Some(2)},
     hi \in {None, Some(2)},
     by \in {"precio_por_tableta", "fabricante", "precio"},
     ord \in {"asc", "desc", "ASC", "down"},
     n \in {None, Some(0), Some(-1), Some(1), Some(2), Some(DefaultLimit)}}

FilterCalls == EqSlice \cup OrderSlice

NoResponse == [op |-> "none"]

\* no call is in progress
Idle == resp = NoResponse

\* the caller has read the response
Return ==
  /\ ~Idle
  /\ req' = None
  /\ resp' = NoResponse
  /\ UNCHANGED df

\* a caller invokes data_service.filter_data(**p)
FilterData(p) ==
  /\ Idle
  /\ \E out \in filter_data(df, p) :
       resp' = [op |-> "filter_data", out |-> out]
  /\ req' = p
  /\ UNCHANGED df

HistogramCalls ==
  {[active_ingredient |-> a, manufacturer |-> f, bins |-> b] :
     a \in {None, Some("A"), Some("B")},
     f \in {None, Some("M")},
     b \in {-1, 0, 1, 2, 3, 5}}

\* a caller invokes data_service.get_histogram_data(**p)
GetHistogramData(p) ==
  /\ Idle
  /\ \E out \in get_histogram_data(df, p.active_ingredient, p.manufacturer, p.bins) :
       resp' = [op |-> "get_histogram_data", out |-> out]
  /\ req' = p
  /\ UNCHANGED df

SummaryCalls ==
  {[active_ingredient |-> a, manufacturer |-> f] :
     a \in {None, Some(""), Some("A"), Some("B")},
     f \in {None, Some(""), Some("M"), Some("N")}}

\* a caller invokes data_service.get_summary_stats(**p)
GetSummaryStats(p) ==
  /\ Idle
  /\ \E out \in get_summary_stats(df, p.active_ingredient, p.manufacturer) :
       resp' = [op |-> "get_summary_stats", out |-> out]
  /\ req' = p
  /\ UNCHANGED df

BoxplotCalls ==
  {[group_by |-> g, active_ingredient |-> a, limit |-> n] :
     g \in {"fabricante", "principio_activo", "precio_por_tableta", "marca"},
     a \in {None, Some("A")},
     n \in {None, Some(-1), Some(0), Some(1), Some(10)}}

\* a caller invokes data_service.get_boxplot_data(**p)
GetBoxplotData(p) ==
  /\ Idle
  /\ \E out \in get_boxplot_data(df, p.group_by, p.active_ingredient, p.limit) :
       resp' = [op |-> "get_boxplot_data", out |-> out]
  /\ req' = p
  /\ UNCHANGED df

ClusteringCalls ==
  {[active_ingredient |-> a, n_clusters |-> k] :
     a \in {None, Some("A"), Some("B")}, k \in 0..3}

\* a caller invokes data_service.get_clustering(**p)
GetClustering(p) ==
  /\ Idle
  /\ \E out \in get_clustering(df, p.active_ingredient, p.n_clusters) :
       /\ resp' = [op |-> "get_clustering", out |-> out.result]
       /\ df' = out.self_df
  /\ req' = p

AnomalyCalls ==
  {[active_ingredient |-> a, contamination |-> c] :
     a \in {None, Some("A"), Some("B")}, c \in {0, 5, 34, 50, 60, 100}}

\* a caller invokes data_service.get_anomalies(**p)
GetAnomalies(p) ==
  /\ Idle
  /\ \E out \in get_anomalies(df, p.active_ingredient, p.contamination) :
       /\ resp' = [op |-> "get_anomalies", out |-> out.result]
       /\ df' = out.self_df
  /\ req' = p

\* the two implementations of the API
Impls == {"app", "server"}

\* GET /api/metadata
ApiMetadata(impl) ==
  /\ Idle
  /\ resp' = [op |-> "api_metadata", impl |-> impl, response |-> Metadata(df)]
  /\ req' = [endpoint |-> "/api/metadata"]
  /\ UNCHANGED df

NoQuery ==
  [active_ingredient |-> None, manufacturer |-> None, concentration |-> None,
   channel |-> None, dispensing_unit |-> None, min_price |-> None,
   max_price |-> None, sort_by |-> None, sort_order |-> None, limit |-> None]

DataQueries ==
  {[NoQuery EXCEPT !.active_ingredient = a, !.min_price = lo, !.sort_order = ord,
                   !.limit = n] :
     a \in {None, Some("A")},
     lo \in {None, QNum(2), QText},
     ord \in {None, Some("desc")},
     n \in {None, QNum(0), QNum(1), QText}}

\* GET /api/data
ApiData(impl, q) ==
  /\ Idle
  /\ \E r \in get_data(df, q) :
       resp' = [op |-> "api_data", impl |-> impl, response |-> r]
  /\ req' = q
  /\ UNCHANGED df

SummaryQueries ==
  {[active_ingredient |-> a, manufacturer |-> f] :
     a \in {None, Some("A")}, f \in {None, Some("M")}}

\* GET /api/summary
ApiSummary(impl, q) ==
  /\ Idle
  /\ \E r \in (IF impl = "app" THEN app_get_summary(df, q)
               ELSE server_get_summary(df, q)) :
       resp' = [op |-> "api_summary", impl |-> impl, response |-> r]
  /\ req' = q
  /\ UNCHANGED df

HistogramQueries ==
  {[active_ingredient |-> a, manufacturer |-> None, bins |-> b] :
     a \in {None, Some("B")}, b \in {None, QNum(0), QNum(2), QText}}

\* GET /api/histogram
ApiHistogram(impl, q) ==
  /\ Idle
  /\ \E r \in (IF impl = "app" THEN app_get_histogram(df, q)
               ELSE server_get_histogram(df, q)) :
       resp' = [op |-> "api_histogram", impl |-> impl, response |-> r]
  /\ req' = q
  /\ UNCHANGED df

BoxplotQueries ==
  {[group_by |-> g, active_ingredient |-> a, limit |-> n] :
     g \in {None, Some("principio_activo"), Some("marca")},
     a \in {None, Some("A")},
     n \in {None, QNum(1)}}

\* GET /api/boxplot
ApiBoxplot(impl, q) ==
  /\ Idle
  /\ \E r \in (IF impl = "app" THEN app_get_boxplot(df, q)
               ELSE server_get_boxplot(df, q)) :
       resp' = [op |-> "api_boxplot", impl |-> impl, response |-> r]
  /\ req' = q
  /\ UNCHANGED df

ClusterQueries ==
  {[active_ingredient |-> a, n_clusters |-> k] :
     a \in {None, Some("B")}, k \in {None, QNum(0), QNum(2)}}

\* GET /api/ml/clusters
ApiClusters(impl, q) ==
  /\ Idle
  /\ \E r \in (IF impl = "app" THEN app_get_clusters(df, q)
               ELSE server_get_clusters(df, q)) :
       /\ resp' = [op |-> "api_clusters", impl |-> impl, response |-> r.response]
       /\ df' = r.self_df
  /\ req' = q

AnomalyQueries ==
  {[active_ingredient |-> a, contamination |-> c] :
     a \in {None, Some("B")}, c \in {None, QNum(34), QNum(100)}}

\* GET /api/ml/anomalies
ApiAnomalies(impl, q) ==
  /\ Idle
  /\ \E r \in (IF impl = "app" THEN app_get_anomalies(df, q)
               ELSE server_get_anomalies(df, q)) :
       /\ resp' = [op |-> "api_anomalies", impl |-> impl, response |-> r.response]
       /\ df' = r.self_df
  /\ req' = q

Init ==
  /\ \E src \in Sources : df = load_data(src)
  /\ req = None
  /\ resp = NoResponse

Next ==
  \/ \E p \in FilterCalls : FilterData(p)
  \/ \E p \in HistogramCalls : GetHistogramData(p)
  \/ \E p \in SummaryCalls : GetSummaryStats(p)
  \/ \E p \in BoxplotCalls : GetBoxplotData(p)
  \/ \E p \in ClusteringCalls : GetClustering(p)
  \/ \E p \in AnomalyCalls : GetAnomalies(p)
  \/ \E impl \in Impls : ApiMetadata(impl)
  \/ \E impl \in Impls, q \in DataQueries : ApiData(impl, q)
  \/ \E impl \in Impls, q \in SummaryQueries : ApiSummary(impl, q)
  \/ \E impl \in Impls, q \in HistogramQueries : ApiHistogram(impl, q)
  \/ \E impl \in Impls, q \in BoxplotQueries : ApiBoxplot(impl, q)
  \/ \E impl \in Impls, q \in ClusterQueries : ApiClusters(impl, q)
  \/ \E impl \in Impls, q \in AnomalyQueries : ApiAnomalies(impl, q)
  \/ Return

Spec == Init /\ [][Next]_vars

(***************************************************************************)
(* Properties of the Dataset.                                              *)
(***************************************************************************)
\* C1: no call, whether it returns or raises, changes the Dataset: it keeps
\* its records, their order and its columns, and gets no 'cluster' or
\* 'anomaly' column.
C1_DatasetUnchanged == [][df' = df]_vars

\* a clustering call labelled a view as long as the Dataset, and the Dataset
\* has no cluster column
C1_Witness ==
  /\ resp.op = "get_clustering"
  /\ resp.out.status = "ok"
  /\ Len(resp.out.view) = Len(df.rows)
  /\ "cluster" \in DOMAIN resp.out.view[1]
  /\ df.cols = Columns
  /\ "cluster" \notin DOMAIN df.rows[1]

ApiOps ==
  {"api_metadata", "api_data", "api_summary", "api_histogram", "api_boxplot",
   "api_clusters", "api_anomalies"}

\* C6: on an empty or absent Dataset every API operation answers with the
\* 'No data available' error and computes nothing.
C6_NoDataBeforeComputation ==
  (resp.op \in ApiOps /\ (df.cols = {} \/ Len(df.rows) = 0)) =>
    /\ resp.response.status = "error"
    /\ resp.response.message = "No data available"
    /\ ~resp.response.computed

\* the anomalies handler of server.py refused a Dataset that has its columns
\* and no row
C6_Witness ==
  /\ resp.op = "api_anomalies"
  /\ resp.impl = "server"
  /\ df.cols = Columns
  /\ Len(df.rows) = 0
  /\ resp.response.status = "error"
  /\ ~resp.response.computed

(***************************************************************************)
(* Properties of filter_data.                                              *)
(***************************************************************************)
\* the column each equality argument is compared with
ArgColumn ==
  [active_ingredient |-> "principio_activo", manufacturer |-> "fabricante",
   concentration |-> "concentracion", channel |-> "canal",
   dispensing_unit |-> "unidad_de_dispensacion"]

InPriceBounds(r, p) ==
  /\ p.min_price # None => r.precio_por_tableta >= p.min_price[1]
  /\ p.max_price # None => r.precio_por_tableta <= p.max_price[1]

\* r satisfies every predicate p supplies, an argument that is not None
\* being supplied
SatisfiesSupplied(r, p) ==
  /\ \A a \in DOMAIN ArgColumn : p[a] # None => r[ArgColumn[a]] = p[a][1]
  /\ InPriceBounds(r, p)

\* r satisfies every predicate p supplies, an empty string supplying none
SatisfiesNonEmpty(r, p) ==
  /\ \A a \in DOMAIN ArgColumn :
       (p[a] # None /\ p[a][1] # "") => r[ArgColumn[a]] = p[a][1]
  /\ InPriceBounds(r, p)

FilterReturned == resp.op = "filter_data" /\ resp.out.status = "ok"

\* the limit cuts nothing off: it is not set, zero, or positive and at
\* least the number of records that passed the filters
NoTruncation ==
  \/ ~TruthyInt(req.limit)
  \/ req.limit[1] > 0 /\ Len(resp.out.sorted) <= req.limit[1]

NoDuplicates(rows) ==
  \A i, j \in 1..Len(rows) : i # j => rows[i].id # rows[j].id

\* C2 as stated: the view is never longer than the requested limit and each
\* of its records satisfies every supplied predicate.
C2_SizeAndPredicates ==
  FilterReturned =>
    /\ req.limit # None => Len(resp.out.rows) <= req.limit[1]
    /\ \A i \in 1..Len(resp.out.rows) : SatisfiesSupplied(resp.out.rows[i], req)

\* C2, amended: for a positive limit the view is never longer than the limit,
\* and each of its records satisfies every supplied non-empty equality value
\* and every supplied price bound.
C2_PositiveLimitAndPredicates ==
  FilterReturned =>
    /\ (req.limit # None /\ req.limit[1] > 0) => Len(resp.out.rows) <= req.limit[1]
    /\ \A i \in 1..Len(resp.out.rows) : SatisfiesNonEmpty(resp.out.rows[i], req)

\* a positive limit cut records off a view filtered on price
C2_Witness ==
  /\ FilterReturned
  /\ req.limit = Some(1)
  /\ req.min_price = Some(2)
  /\ Len(resp.out.sorted) > 1
  /\ Len(resp.out.rows) = 1

\* C3 as stated: without truncation the view holds exactly the Dataset
\* records that equal every supplied equality value and lie within the
\* inclusive price bounds.
C3_ExactMatches ==
  (FilterReturned /\ NoTruncation) =>
    /\ Range(resp.out.rows) = {r \in Range(df.rows) : SatisfiesSupplied(r, req)}
    /\ NoDuplicates(resp.out.rows)

\* C3, amended: the same for every supplied non-empty equality value; an
\* empty string filters nothing.
C3_ExactNonEmptyMatches ==
  (FilterReturned /\ NoTruncation) =>
    /\ Range(resp.out.rows) = {r \in Range(df.rows) : SatisfiesNonEmpty(r, req)}
    /\ NoDuplicates(resp.out.rows)

\* a record priced exactly at both bounds is kept, another one is dropped
C3_Witness ==
  /\ FilterReturned
  /\ NoTruncation
  /\ req.min_price = Some(2)
  /\ req.max_price = Some(2)
  /\ Len(resp.out.rows) = 1
  /\ Len(df.rows) = 3

OrderedOn(rows, col, asc) ==
  \A i, j \in 1..Len(rows) : i < j => Before(rows[i], rows[j], col, asc)

\* the rows are in the order they have in the Dataset
DatasetOrder(rows) ==
  \A i, j \in 1..Len(rows) : i < j => rows[i].id < rows[j].id

\* C4 as stated: a known sort_by orders the view, descending only for
\* sort_order "desc"; an unknown one keeps the Dataset order, without error.
C4_SortDescOnlyForDesc ==
  /\ FilterReturned =>
       IF req.sort_by \in df.cols
         THEN OrderedOn(resp.out.rows, req.sort_by, req.sort_order # "desc")
         ELSE DatasetOrder(resp.out.rows)
  /\ (resp.op = "filter_data" /\ df.cols = Columns /\ req.sort_by \notin df.cols)
       => resp.out.status = "ok"

\* C4, amended: a known sort_by orders the view, ascending when sort_order
\* lower-cased is "asc" and descending for every other sort_order; an unknown
\* one keeps the Dataset order, without error.
C4_SortAscOnlyForAsc ==
  /\ FilterReturned =>
       IF req.sort_by \in df.cols
         THEN OrderedOn(resp.out.rows, req.sort_by, Lower(req.sort_order) = "asc")
         ELSE DatasetOrder(resp.out.rows)
  /\ (resp.op = "filter_data" /\ df.cols = Columns /\ req.sort_by \notin df.cols)
       => resp.out.status = "ok"

\* an upper-case "ASC" ordered a view of different prices upwards
C4_Witness ==
  /\ FilterReturned
  /\ req.sort_by = "precio_por_tableta"
  /\ req.sort_order = "ASC"
  /\ Len(resp.out.rows) = 2
  /\ resp.out.rows[1].precio_por_tableta < resp.out.rows[2].precio_por_tableta
  /\ resp.out.rows[1].id > resp.out.rows[2].id

\* C5: the view is the first limit records of the filtered, sorted sequence
\* when limit is set and positive, and the whole sequence otherwise.
C5_LimitAfterSort ==
  FilterReturned =>
    resp.out.rows =
      IF req.limit # None /\ req.limit[1] > 0
        THEN SubSeq(resp.out.sorted, 1, Min2(req.limit[1], Len(resp.out.sorted)))
        ELSE resp.out.sorted

(***************************************************************************)
(* Properties of get_histogram_data.                                       *)
(***************************************************************************)
HistogramReturned == resp.op = "get_histogram_data" /\ resp.out.status = "ok"

ViewPrices == Prices(resp.out.view)

DistinctPrices == Cardinality(Range(ViewPrices))

RECURSIVE SumCounts(_, _)
SumCounts(h, n) == IF n = 0 THEN 0 ELSE h[n].count + SumCounts(h, n - 1)

\* C7: the bin counts add up to the size of the filtered view.
C7_CountsSumToViewSize ==
  HistogramReturned =>
    SumCounts(resp.out.histogram, Len(resp.out.histogram)) = Len(resp.out.view)

\* several bins share a view of several records, one of them at the maximum
C7_Witness ==
  /\ HistogramReturned
  /\ req.bins = 3
  /\ Len(resp.out.view) = 3
  /\ DistinctPrices = 2
  /\ resp.out.histogram[3].count >= 1

EdgesIncrease(h) ==
  \A i \in 1..Len(h) :
    /\ FracLt(h[i].binStart, h[i].binEnd)
    /\ i < Len(h) => h[i].binEnd = h[i + 1].binStart

\* C8 as stated: the edges increase strictly, from the minimum price of the
\* view to its maximum price, for every view.
C8_EdgesSpanMinMax ==
  HistogramReturned =>
    /\ EdgesIncrease(resp.out.histogram)
    /\ FracEq(resp.out.histogram[1].binStart, SeriesMin(ViewPrices))
    /\ FracEq(resp.out.histogram[req.bins].binEnd, SeriesMax(ViewPrices))

\* C8, amended: the edges increase strictly for every view; they run from the
\* minimum to the maximum price when the view has two different prices, from
\* p - 0.5 to p + 0.5 when all its prices equal p, and from 0 to 1 when it is
\* empty.
C8_EdgesSpanWidenedRange ==
  HistogramReturned =>
    LET h == resp.out.histogram
        first == h[1].binStart
        last == h[req.bins].binEnd
    IN  /\ EdgesIncrease(h)
        /\ DistinctPrices >= 2 =>
             /\ FracEq(first, SeriesMin(ViewPrices))
             /\ FracEq(last, SeriesMax(ViewPrices))
        /\ DistinctPrices = 1 =>
             /\ FracEq(first, Frac(2 * ViewPrices[1] - 1, 2))
             /\ FracEq(last, Frac(2 * ViewPrices[1] + 1, 2))
        /\ DistinctPrices = 0 =>
             /\ FracEq(first, Frac(0, 1))
             /\ FracEq(last, Frac(1, 1))

\* a view of two records of one price, cut into two bins
C8_Witness ==
  /\ HistogramReturned
  /\ req.bins = 2
  /\ Len(resp.out.view) = 2
  /\ DistinctPrices = 1

FracSub(x, y) == Frac(x[1] * y[2] - y[1] * x[2], x[2] * y[2])

FracOver(x, n) == Frac(x[1], x[2] * n)

\* the prices of the view within [lo, hi), or [lo, hi] when closed
InBin(lo, hi, closed) ==
  {j \in 1..Len(ViewPrices) :
     LET x == Frac(ViewPrices[j], 1)
     IN  FracLe(lo, x) /\ (FracLt(x, hi) \/ (closed /\ FracEq(x, hi)))}

NormalizedRight(b) ==
  IF Len(resp.out.view) = 0 THEN b.normalizedCount = Frac(0, 1)
  ELSE FracEq(b.normalizedCount, Frac(b.count, Len(resp.out.view)))

\* C9 as stated: bin_count bins of width (max - min) / bin_count, each
\* counting the prices in [lower, upper), the last one the maximum price as
\* well; the normalised count is count / view size, 0 for an empty view.
C9_EqualWidthBins ==
  HistogramReturned =>
    LET h == resp.out.histogram
    IN  /\ Len(h) = req.bins
        /\ \A i \in 1..Len(h) :
             /\ Len(ViewPrices) > 0 =>
                  FracEq(FracSub(h[i].binEnd, h[i].binStart),
                         FracOver(FracSub(SeriesMax(ViewPrices), SeriesMin(ViewPrices)),
                                  req.bins))
             /\ h[i].count =
                  Cardinality(InBin(h[i].binStart, h[i].binEnd, FALSE)
                    \cup IF i = Len(h)
                           THEN {j \in 1..Len(ViewPrices) :
                                   ViewPrices[j] = MaxOf(ViewPrices, Len(ViewPrices))}
                           ELSE {})
             /\ NormalizedRight(h[i])

\* C9, amended: bin_count bins of equal width, (max - min) / bin_count when
\* the view has two different prices and 1 / bin_count otherwise, each
\* counting the prices in [lower, upper), the last one closed at its upper
\* edge; the normalised count is count / view size, 0 for an empty view.
C9_EqualWidthBinsOfWidenedRange ==
  HistogramReturned =>
    LET h == resp.out.histogram
    IN  /\ Len(h) = req.bins
        /\ \A i \in 1..Len(h) :
             /\ FracEq(FracSub(h[i].binEnd, h[i].binStart),
                       IF DistinctPrices >= 2
                         THEN Frac(MaxOf(ViewPrices, Len(ViewPrices))
                                     - MinOf(ViewPrices, Len(ViewPrices)), req.bins)
                         ELSE Frac(1, req.bins))
             /\ h[i].count =
                  Cardinality(InBin(h[i].binStart, h[i].binEnd, i = Len(h)))
             /\ NormalizedRight(h[i])

\* the scenario: prices 10, 20, 30, 40, 50 in 5 bins of width 8, one record
\* and a normalised count of 0.2 in each
C9_Witness ==
  /\ HistogramReturned
  /\ req.bins = 5
  /\ ViewPrices = <<10, 20, 30, 40, 50>>
  /\ \A i \in 1..5 :
       /\ FracEq(resp.out.histogram[i].binStart, Frac(10 + 8 * (i - 1), 1))
       /\ FracEq(resp.out.histogram[i].binEnd, Frac(10 + 8 * i, 1))
       /\ resp.out.histogram[i].count = 1
       /\ FracEq(resp.out.histogram[i].normalizedCount, Frac(2, 10))

(***************************************************************************)
(* Properties of get_summary_stats.                                        *)
(***************************************************************************)
SummaryReturned == resp.op = "get_summary_stats" /\ resp.out.status = "ok"

\* the Dataset records matching the non-empty filters of a summary call
SummaryMatches ==
  {r \in Range(df.rows) :
     /\ TruthyStr(req.active_ingredient) => r.principio_activo = req.active_ingredient[1]
     /\ TruthyStr(req.manufacturer) => r.fabricante = req.manufacturer[1]}

\* C10: the summary counts every Dataset record that matches the filters;
\* the default limit of 50 does not apply to it.
C10_SummaryCountsAllMatches ==
  SummaryReturned => resp.out.stats.count = Cardinality(SummaryMatches)

(***************************************************************************)
(* float64 arithmetic.  The prices of a CSV file are decimal fractions;    *)
(* pd.to_numeric reads each as the nearest float64, and sum() and mean()   *)
(* round after every operation.  A float64 is [m, e], the value m * 2^e,   *)
(* with m a natural number of at most 53 bits written as its bits, the     *)
(* lowest first.  The exact fractions used above are what this arithmetic  *)
(* gives on whole prices, whose sums are exact.                            *)
(***************************************************************************)
\* bits of a float64 mantissa
Precision == 53

\* the w lowest bits of n
Bits(n, w) == [i \in 1..w |-> (n \div (2 ^ (i - 1))) % 2]

BitAt(a, i) == IF i <= Len(a) THEN a[i] ELSE 0

\* the position of the highest 1, 0 for the number 0
BitLen(a) ==
  LET ones == {i \in 1..Len(a) : a[i] = 1}
  IN  IF ones = {} THEN 0 ELSE CHOOSE i \in ones : \A j \in ones : j <= i

Trim(a) == SubSeq(a, 1, BitLen(a))

ShiftLeft(a, k) == [i \in 1..k |-> 0] \o a

\* the arithmetic below works on groups of LimbWidth bits
LimbWidth == 20

LimbCount(a) == (Len(a) + LimbWidth - 1) \div LimbWidth

\* the number written by the w bits of a from position lo on
RECURSIVE BitsValue(_, _, _)
BitsValue(a, lo, w) ==
  IF w = 0 THEN 0 ELSE BitAt(a, lo) + 2 * BitsValue(a, lo + 1, w - 1)

Limb(a, k) == BitsValue(a, (k - 1) * LimbWidth + 1, LimbWidth)

RECURSIVE AddFrom(_, _, _, _, _)
AddFrom(a, b, k, carry, n) ==
  IF k > n THEN <<carry>>
  ELSE LET t == Limb(a, k) + Limb(b, k) + carry
       IN  Bits(t % (2 ^ LimbWidth), LimbWidth)
             \o AddFrom(a, b, k + 1, t \div (2 ^ LimbWidth), n)

\* a + b
BitAdd(a, b) == AddFrom(a, b, 1, 0, Max2(LimbCount(a), LimbCount(b)))

\* a < b
BitLt(a, b) ==
  LET n == Max2(Len(a), Len(b))
  IN  \E i \in 1..n :
        /\ BitAt(a, i) < BitAt(b, i)
        /\ \A j \in (i + 1)..n : BitAt(a, j) = BitAt(b, j)

\* long division of the limbs k..1 of a by a small n, rem carried in
RECURSIVE DivFrom(_, _, _, _)
DivFrom(a, n, k, rem) ==
  IF k = 0 THEN [q |-> <<>>, r |-> rem]
  ELSE LET cur == rem * (2 ^ LimbWidth) + Limb(a, k)
           rest == DivFrom(a, n, k - 1, cur % n)
       IN  [q |-> rest.q \o Bits(cur \div n, LimbWidth), r |-> rest.r]

\* rounding to the nearest float64, ties to the even mantissa: the exact
\* value is a * 2^e, plus a fraction of its last bit when inexact
RoundNearestEven(a, e, inexact) ==
  LET len == BitLen(a)
      d == len - Precision
  IN  IF d <= 0 THEN [m |-> Trim(a), e |-> e]
      ELSE LET q == SubSeq(a, d + 1, len)
               guard == a[d]
               sticky == inexact \/ \E i \in 1..(d - 1) : a[i] = 1
               up == guard = 1 /\ (sticky \/ q[1] = 1)
           IN  [m |-> IF up THEN Trim(BitAdd(q, <<1>>)) ELSE q, e |-> e + d]

\* the mantissas of x and y over their lower exponent
Aligned(x, y) ==
  LET e == Min2(x.e, y.e)
  IN  [a |-> ShiftLeft(x.m, x.e - e), b |-> ShiftLeft(y.m, y.e - e), e |-> e]

\* x + y
FloatAdd(x, y) ==
  LET al == Aligned(x, y) IN RoundNearestEven(BitAdd(al.a, al.b), al.e, FALSE)

\* x / n for a count n below 256
FloatDivInt(x, n) ==
  LET s == Precision + 1 + BitLen(Bits(n, 8))
      a == ShiftLeft(x.m, s)
      d == DivFrom(a, n, LimbCount(a), 0)
  IN  RoundNearestEven(d.q, x.e - s, d.r # 0)

FloatLt(x, y) == LET al == Aligned(x, y) IN BitLt(al.a, al.b)

FloatLe(x, y) == ~FloatLt(y, x)

FloatZero == [m |-> <<>>, e |-> 0]

\* the price texts of the decimal CSV files
PriceTexts == {"0.1", "0.3", "0.7", "1", "3"}

\* pd.to_numeric on a price text: the nearest float64
to_numeric(t) ==
  CASE t = "0.1" -> [m |-> Bits(13421773, 24) \o Bits(13421772, 24) \o Bits(12, 4),
                     e |-> -55]
    [] t = "0.3" -> [m |-> Bits(3355443, 24) \o Bits(3355443, 24) \o Bits(19, 5),
                     e |-> -54]
    [] t = "0.7" -> [m |-> Bits(3355443, 24) \o Bits(3355443, 24) \o Bits(11, 4),
                     e |-> -52]
    [] t = "1" -> [m |-> <<1>>, e |-> 0]
    [] t = "3" -> [m |-> <<1, 1>>, e |-> 0]

(***************************************************************************)
(* get_summary_stats on a Dataset of decimal prices.                       *)
(***************************************************************************)
\* the CSV files of one to MaxRows lines whose prices are decimal texts
DecimalFiles == UNION {[1..n -> PriceTexts] : n \in 1..MaxRows}

\* load_data on such a file: every price converts, no line is dropped
load_decimal(file) ==
  [cols |-> Columns,
   rows |-> [i \in 1..Len(file) |->
               [Row(RawRow("n1", "A", "M", "c1", "k1", "u1", <<0>>), i)
                  EXCEPT !.precio_por_tableta = to_numeric(file[i])]]]

\* x put into the ascending sequence s
RECURSIVE FloatInsert(_, _)
FloatInsert(x, s) ==
  IF s = <<>> THEN <<x>>
  ELSE IF FloatLe(Head(s), x) THEN <<Head(s)>> \o FloatInsert(x, Tail(s))
  ELSE <<x>> \o s

\* the price column of filter_data()'s view: sorted ascending, DefaultLimit
\* values at most
RECURSIVE FloatSorted(_, _)
FloatSorted(a, n) ==
  IF n = 0 THEN <<>> ELSE FloatInsert(a[n], FloatSorted(a, n - 1))

\* Series.sum(): the values added one by one, rounding each time
RECURSIVE FloatSum(_, _)
FloatSum(a, n) ==
  IF n = 0 THEN FloatZero ELSE FloatAdd(FloatSum(a, n - 1), a[n])

\* Series.mean(): the sum divided by the count
FloatMean(a) == FloatDivInt(FloatSum(a, Len(a)), Len(a))

\* Series.median() of ascending values: the middle one, or the mean of the
\* two middle ones
FloatMedian(o) ==
  LET n == Len(o)
  IN  IF n % 2 = 1 THEN o[(n + 1) \div 2]
      ELSE FloatDivInt(FloatAdd(o[n \div 2], o[n \div 2 + 1]), 2)

\* the stats dictionary of a call without filters on decimal prices; the
\* standard deviation is left as a function of the prices
DecimalSummaryOf(d) ==
  LET a == Prices(d.rows)
      o == head(FloatSorted(a, Len(a)), DefaultLimit)
  IN  [count |-> Len(o),
       price_stats |-> [min |-> o[1], max |-> o[Len(o)], mean |-> FloatMean(o),
                        median |-> FloatMedian(o), std |-> <<"std", o>>],
       manufacturers |-> None,
       active_ingredients |-> None]

DecimalInit ==
  /\ \E file \in DecimalFiles : df = load_decimal(file)
  /\ req = None
  /\ resp = NoResponse

\* a caller invokes data_service.get_summary_stats() on decimal prices
GetDecimalSummaryStats ==
  /\ Idle
  /\ resp' = [op |-> "get_summary_stats",
              out |-> [status |-> "ok", stats |-> DecimalSummaryOf(df)]]
  /\ req' = [active_ingredient |-> None, manufacturer |-> None]
  /\ UNCHANGED df

DecimalNext == GetDecimalSummaryStats \/ Return

DecimalSpec == DecimalInit /\ [][DecimalNext]_vars

\* C11: for any non-empty view the summary has min <= median <= max and
\* min <= mean <= max.
C11_MedianAndMeanWithinRange ==
  (SummaryReturned /\ resp.out.stats.count > 0) =>
    LET ps == resp.out.stats.price_stats
    IN  /\ FloatLe(ps.min, ps.median) /\ FloatLe(ps.median, ps.max)
        /\ FloatLe(ps.min, ps.mean) /\ FloatLe(ps.mean, ps.max)

\* a summary was computed, by the DataService or by a handler of either file
SummaryAnswered ==
  \/ SummaryReturned
  \/ resp.op = "api_summary" /\ resp.response.status = "success"

SummaryStats ==
  IF resp.op = "get_summary_stats" THEN resp.out.stats
  ELSE resp.response.body.summary

BoxplotReturned == resp.op = "get_boxplot_data" /\ resp.out.status = "ok"

\* the records of the view whose group_by value is v
GroupMembers(v) ==
  {j \in 1..Len(resp.out.view) : resp.out.view[j][req.group_by] = v}

\* C13: no returned group has fewer than 5 members; a group of the view with
\* fewer than 5 records is left out and does not make the call fail.
C13_NoSmallGroup ==
  /\ BoxplotReturned =>
       \A i \in 1..Len(resp.out.boxplot) :
         /\ resp.out.boxplot[i].count >= 5
         /\ resp.out.boxplot[i].count = Cardinality(GroupMembers(resp.out.boxplot[i].name))
  /\ (resp.op = "get_boxplot_data" /\ req.group_by \in df.cols) =>
       resp.out.status = "ok"

\* a view of ten records of one ingredient and two of another: the group of
\* ten is returned, the group of two is not
C13_Witness ==
  /\ BoxplotReturned
  /\ req.group_by = "principio_activo"
  /\ req.limit = Some(10)
  /\ Cardinality(GroupMembers("A")) = 10
  /\ Cardinality(GroupMembers("B")) = 2
  /\ Len(resp.out.boxplot) = 1
  /\ resp.out.boxplot[1].name = "A"

\* the group_by values of the view with at least 5 records
SurvivingGroups ==
  {v \in {resp.out.view[j][req.group_by] : j \in 1..Len(resp.out.view)} :
     Cardinality(GroupMembers(v)) >= 5}

MedianNonIncreasing(b) ==
  \A i, j \in 1..Len(b) : i < j => FracLe(b[j].median, b[i].median)

\* C14: the returned groups are in order of non-increasing median and are
\* the first limit groups of that order, never more than limit.
C14_SortedAndCapped ==
  BoxplotReturned =>
    LET b == resp.out.boxplot
    IN  /\ MedianNonIncreasing(b)
        /\ \A i, j \in 1..Len(b) : i # j => b[i].name # b[j].name
        /\ \A v \in SurvivingGroups :
             \/ \E i \in 1..Len(b) : b[i].name = v
             \/ /\ req.limit # None
                /\ Len(b) >= req.limit[1]
                /\ \A i \in 1..Len(b) :
                     FracLe(SeriesMedian(Prices(GroupRows(resp.out.view, req.group_by, v))),
                            b[i].median)
        /\ req.limit # None => Len(b) <= req.limit[1]

\* the prices of the view's records of group v, ascending
GroupPricesSorted(v) ==
  LET g == GroupRows(resp.out.view, req.group_by, v)
  IN  Prices(OneOrder(g, Len(g), "precio_por_tableta", TRUE, TRUE))

\* the value at rank (n - 1) * q / 4 of the ascending values o, counted from
\* 0: between two values, the weighted mean of both
AtRank(o, q) ==
  LET i == ((Len(o) - 1) * q) \div 4
      f == ((Len(o) - 1) * q) % 4
  IN  IF f = 0 THEN Frac(o[i + 1], 1)
      ELSE Frac((4 - f) * o[i + 1] + f * o[i + 2], 4)

\* C15: every returned group has min <= q1 <= median <= q3 <= max, the
\* quartiles interpolated linearly over the group's sorted prices, and a
\* count equal to the number of view records of the group.
C15_QuartilesOrdered ==
  BoxplotReturned =>
    \A i \in 1..Len(resp.out.boxplot) :
      LET b == resp.out.boxplot[i]
          o == GroupPricesSorted(b.name)
      IN  /\ b.count = Cardinality(GroupMembers(b.name))
          /\ b.count = Len(o)
          /\ FracEq(b.min, Frac(o[1], 1))
          /\ FracEq(b.max, Frac(o[Len(o)], 1))
          /\ FracEq(b.q1, AtRank(o, 1))
          /\ FracEq(b.median, AtRank(o, 2))
          /\ FracEq(b.q3, AtRank(o, 3))
          /\ FracLe(b.min, b.q1)
          /\ FracLe(b.q1, b.median)
          /\ FracLe(b.median, b.q3)
          /\ FracLe(b.q3, b.max)

\* a group of seven prices 5, 6, 7, 8, 9, 20, 21: both quartiles fall between
\* two prices, q1 = 6.5 and q3 = 14.5
C15_Witness ==
  /\ BoxplotReturned
  /\ \E i \in 1..Len(resp.out.boxplot) :
       LET b == resp.out.boxplot[i]
       IN  /\ b.name = "N"
           /\ b.count = 7
           /\ FracEq(b.min, Frac(5, 1))
           /\ FracEq(b.q1, Frac(13, 2))
           /\ FracEq(b.median, Frac(8, 1))
           /\ FracEq(b.q3, Frac(29, 2))
           /\ FracEq(b.max, Frac(21, 1))

\* the message of the error for column g
ColumnNotFound(g) == <<"Column", g, "not found">>

\* C16: for a group_by that is not a field, get_boxplot_data fails with a
\* "column not found" error and returns no group summaries, and the API
\* answers with an error response.
C16_UnknownColumnIsError ==
  /\ (resp.op = "get_boxplot_data" /\ req.group_by \notin Columns) =>
       \/ /\ resp.out.status = "error"
          /\ resp.out.error = ColumnNotFound(req.group_by)
       \/ /\ resp.out.status = "raise"
          /\ resp.out.error = "KeyError"
          /\ df.cols = {}
  /\ (resp.op = "api_boxplot" /\ req.group_by # None /\ req.group_by[1] \notin Columns) =>
       /\ resp.response.status = "error"
       /\ ~NoData(df) =>
            /\ resp.response.code = 400
            /\ resp.response.message = ColumnNotFound(req.group_by[1])

\* the handler of app.py answered a request for an unknown column on a
\* Dataset with records
C16_Witness ==
  /\ resp.op = "api_boxplot"
  /\ resp.impl = "app"
  /\ req.group_by = Some("marca")
  /\ Len(df.rows) = 3
  /\ resp.response.status = "error"
  /\ resp.response.code = 400
  /\ resp.response.message = ColumnNotFound("marca")

(***************************************************************************)
(* Properties of the parameter checks.                                     *)
(***************************************************************************)
\* C17: with a bin count of 0 or less get_histogram_data fails, and the API
\* answers with an error response, neither a success nor an unhandled
\* failure.
C17_NonPositiveBinsRejected ==
  /\ (resp.op = "get_histogram_data" /\ req.bins <= 0) => resp.out.status = "raise"
  /\ (resp.op = "api_histogram" /\ Len(req.bins) = 2 /\ req.bins[2] <= 0) =>
       resp.response.status = "error"

(***************************************************************************)
(* Properties of get_clustering.                                           *)
(***************************************************************************)
ClusteringReturned == resp.op = "get_clustering" /\ resp.out.status = "ok"

RECURSIVE SumClusterCounts(_, _)
SumClusterCounts(cs, n) ==
  IF n = 0 THEN 0 ELSE cs[n].count + SumClusterCounts(cs, n - 1)

\* C18: every record of the view has one cluster index in 0..k-1,
\* cluster_stats has one entry for each index 0..k-1, and the counts of the
\* clusters add up to the size of the view.
C18_ClustersPartitionView ==
  ClusteringReturned =>
    LET view == resp.out.view
        cs == resp.out.cluster_stats
        k == req.n_clusters
    IN  /\ \A j \in 1..Len(view) : view[j].cluster \in 0..(k - 1)
        /\ Len(cs) = k
        /\ \A c \in 1..k :
             /\ cs[c].cluster_id = c - 1
             /\ cs[c].count =
                  Cardinality({j \in 1..Len(view) : view[j].cluster = c - 1})
        /\ SumClusterCounts(cs, Len(cs)) = Len(view)

\* three records in two clusters, neither of them empty
C18_Witness ==
  /\ ClusteringReturned
  /\ req.n_clusters = 2
  /\ Len(resp.out.view) = 3
  /\ resp.out.cluster_stats[1].count >= 1
  /\ resp.out.cluster_stats[2].count >= 1

\* the size of the view a clustering call with active_ingredient ai works on
ClusterViewSize(ai) ==
  Min2(DefaultLimit,
       Cardinality({i \in 1..Len(df.rows) :
                      TruthyStr(ai) => df.rows[i].principio_activo = ai[1]}))

\* C20: get_clustering succeeds for 1 <= k <= view size, and for any other k
\* (0 or less, more than the records of the view, an empty view) it fails
\* with a validation error before any record is clustered; the API does not
\* answer such a request with a success.
C20_ClusterCountValidated ==
  /\ (resp.op = "get_clustering" /\ df.cols = Columns) =>
       IF 1 <= req.n_clusters /\ req.n_clusters <= ClusterViewSize(req.active_ingredient)
         THEN resp.out.status = "ok"
         ELSE resp.out.status = "raise" /\ resp.out.error = "ValueError"
  /\ (resp.op = "api_clusters" /\ ~NoData(df)) =>
       LET k == ArgNum(req.n_clusters, 3)
       IN  (k < 1 \/ k > ClusterViewSize(req.active_ingredient))
             => resp.response.status # "success"

\* three clusters asked of a view of two records
C20_Witness ==
  /\ resp.op = "get_clustering"
  /\ req.n_clusters = 3
  /\ ClusterViewSize(req.active_ingredient) = 2
  /\ resp.out.status = "raise"
  /\ resp.out.error = "ValueError"

(***************************************************************************)
(* Repeated calls.  KMeans and IsolationForest are built anew in every     *)
(* call with random_state=42, and the sort of filter_data is one algorithm *)
(* of the numpy build: what has been left open above (the seeding, the     *)
(* trees, the order of equal sort keys) is a function of the build and of  *)
(* the seed.  Here req is the memory of a caller who repeats a call:       *)
(* build is the build of the libraries, fits the number of calls made so   *)
(* far, first the call to repeat and its result.                           *)
(***************************************************************************)
\* builds of the libraries told apart
MaxBuild == 2

\* calls allowed between a call and its repetition
MaxBetween == 1

\* longest enumerated CSV file of a caller who repeats a call
MaxRepeatRows == 2

\* random_state of KMeans and of IsolationForest
random_state == 42

\* one generator shared by all calls: each call goes on where the last one
\* stopped
Generator_Shared(build, fits) == build + random_state + fits

\* the generator a call works with: seeded with random_state whatever was
\* called before
Generator(build, fits) == build + random_state

\* the n-th element of S, counted from 0, in an order fixed for S
RECURSIVE Nth(_, _)
Nth(S, n) ==
  LET x == CHOOSE y \in S : TRUE
  IN  IF n = 0 THEN x ELSE Nth(S \ {x}, n - 1)

\* the outcome the generator gen selects among the outcomes S
Draw(gen, S) == Nth(S, gen % Cardinality(S))

RepeatedCalls ==
  {[op |-> "get_clustering", p |-> [active_ingredient |-> a, n_clusters |-> k]] :
     a \in {None, Some("A")}, k \in {1, 2}}
    \cup {[op |-> "get_anomalies", p |-> [active_ingredient |-> a, contamination |-> 34]] :
            a \in {None, Some("A")}}

BetweenCalls ==
  {[op |-> "get_clustering", p |-> [active_ingredient |-> None, n_clusters |-> 2]],
   [op |-> "get_anomalies", p |-> [active_ingredient |-> None, contamination |-> 34]],
   [op |-> "filter_data", p |-> [FilterArgs EXCEPT !.sort_by = "fabricante"]]}

\* the outcomes of call c on the Dataset d, each with the Dataset object as
\* the call leaves it
OutcomesOf(d, c) ==
  CASE c.op = "get_clustering" ->
         get_clustering(d, c.p.active_ingredient, c.p.n_clusters)
    [] c.op = "get_anomalies" ->
         get_anomalies(d, c.p.active_ingredient, c.p.contamination)
    [] c.op = "filter_data" ->
         {[self_df |-> d, result |-> v] : v \in filter_data(d, c.p)}

\* call c made as the (fits + 1)-th call of the process
Outcome(d, c, build, fits) == Draw(Generator(build, fits), OutcomesOf(d, c))

RepeatSources ==
  {None} \cup {Some(f) : f \in UNION {[1..n -> RawPool] : n \in 0..MaxRepeatRows}
                                  \cup {ScenarioFile}}

RepeatInit ==
  /\ \E src \in RepeatSources : df = load_data(src)
  /\ \E b \in 0..(MaxBuild - 1) : req = [build |-> b, fits |-> 0, first |-> None]
  /\ resp = NoResponse

\* the call that will be repeated
FirstCall(c) ==
  /\ req.first = None
  /\ \E out \in {Outcome(df, c, req.build, req.fits)} :
         /\ df' = out.self_df
         /\ resp' = [op |-> c.op, out |-> out.result]
         /\ req' = [req EXCEPT !.fits = @ + 1,
                               !.first = Some([call |-> c, out |-> out.result])]

\* another call in between
CallBetween(c) ==
  /\ req.first # None
  /\ resp.op # "repeated"
  /\ req.fits <= MaxBetween
  /\ \E out \in {Outcome(df, c, req.build, req.fits)} :
         /\ df' = out.self_df
         /\ resp' = [op |-> c.op, out |-> out.result]
         /\ req' = [req EXCEPT !.fits = @ + 1]

\* the first call made again, with the same parameters
SecondCall ==
  /\ req.first # None
  /\ resp.op # "repeated"
  /\ \E out \in {Outcome(df, req.first[1].call, req.build, req.fits)} :
         /\ df' = out.self_df
         /\ resp' = [op |-> "repeated", first |-> req.first[1].out,
                     second |-> out.result]
         /\ req' = [req EXCEPT !.fits = @ + 1]

RepeatNext ==
  \/ \E c \in RepeatedCalls : FirstCall(c)
  \/ \E c \in BetweenCalls : CallBetween(c)
  \/ SecondCall

RepeatSpec == RepeatInit /\ [][RepeatNext]_vars

\* C19: a clustering or anomaly call repeated with the same parameters on
\* the same Dataset returns the same assignments, flags and statistics,
\* whatever was called in between.
C19_RepeatedCallsAgree ==
  resp.op = "repeated" => resp.second = resp.first

\* a clustering into two clusters was repeated after another call and
\* labelled two records both times, one in each cluster
C19_Witness ==
  /\ resp.op = "repeated"
  /\ req.first[1].call.op = "get_clustering"
  /\ req.first[1].call.p.n_clusters = 2
  /\ req.fits = 3
  /\ resp.first.status = "ok"
  /\ Len(resp.first.view) = 2
  /\ resp.first.cluster_stats[1].count = 1
  /\ resp.first.cluster_stats[2].count = 1
  /\ resp.second.status = "ok"
  /\ Len(resp.second.view) = 2

(***************************************************************************)
(* Anomaly detection.  contamination is counted in percent: 34 is 0.34.    *)
(***************************************************************************)
AnomaliesReturned == resp.op = "get_anomalies" /\ resp.out.status = "ok"

\* the size of the view an anomaly call with active_ingredient ai works on
AnomalyViewSize(ai) == ClusterViewSize(ai)

\* the contaminations IsolationForest takes: those in (0, 0.5]
ContaminationAccepted(c) == 0 < c /\ c <= 50

\* C21 as stated: on a view with records, get_anomalies succeeds for every
\* contamination with 0 < contamination < 1 and raises a validation error
\* for every other one.
C21_AcceptsEveryFraction ==
  (resp.op = "get_anomalies" /\ df.cols = Columns
     /\ AnomalyViewSize(req.active_ingredient) >= 1) =>
    IF 0 < req.contamination /\ req.contamination < 100
      THEN resp.out.status = "ok"
      ELSE resp.out.status = "raise" /\ resp.out.error = "ValueError"

\* C21: on a view with records, get_anomalies succeeds for every
\* contamination with 0 < contamination <= 0.5 and raises a validation error,
\* with no record scored, for every other one (0 or less, above 0.5); the
\* API does not answer a request with such a contamination with a success.
C21_ContaminationValidated ==
  /\ (resp.op = "get_anomalies" /\ df.cols = Columns
        /\ AnomalyViewSize(req.active_ingredient) >= 1) =>
       IF ContaminationAccepted(req.contamination)
         THEN resp.out.status = "ok"
         ELSE resp.out = Raise("ValueError")
  /\ (resp.op = "api_anomalies" /\ ~NoData(df)) =>
       (~ContaminationAccepted(ArgNum(req.contamination, 5))
          => resp.response.status # "success")

\* a contamination of 0.6 refused on a view with records
C21_Witness ==
  /\ resp.op = "get_anomalies"
  /\ req.contamination = 60
  /\ AnomalyViewSize(req.active_ingredient) >= 1
  /\ resp.out = Raise("ValueError")

\* C22 as stated: anomaly_count differs from contamination x view size by
\* less than one record, and normal_count + anomaly_count is the view size.
C22_CountMatchesContamination ==
  AnomaliesReturned =>
    LET n == Len(resp.out.view)
        st == resp.out.stats
    IN  /\ Abs(100 * st.anomaly_count - req.contamination * n) < 100
        /\ st.normal_count + st.anomaly_count = n

\* float(normal_prices.mean() + 2 * normal_prices.std()) is NaN when the
\* mean or the std is
ThresholdIsNaN(t) == IsNaN(t.mean) \/ IsNaN(t.std[2])

\* lo <= up as floats compare, for two thresholds of one series (one mean,
\* one std): false when either is NaN
ThresholdLe(lo, up) ==
  /\ ~ThresholdIsNaN(lo)
  /\ ~ThresholdIsNaN(up)
  /\ (lo.sign <= up.sign \/ lo.std[2][1] = 0)

ThresholdIsZero(t) == ~ThresholdIsNaN(t) /\ t.mean[1] = 0 /\ t.std[2][1] = 0

\* C23 as stated: price_threshold_lower <= price_threshold_upper whenever
\* there is a normal record, a single one included, and both thresholds are
\* 0 when there is none.
C23_ThresholdsOrdered ==
  AnomaliesReturned =>
    LET st == resp.out.stats
    IN  IF st.normal_count > 0
          THEN ThresholdLe(st.price_threshold_lower, st.price_threshold_upper)
          ELSE /\ ThresholdIsZero(st.price_threshold_lower)
               /\ ThresholdIsZero(st.price_threshold_upper)

\* C24: anomaly_data holds exactly the records of the view whose anomaly
\* flag is 1, each once, with the fields of its record and is_anomaly true,
\* in order of non-increasing price.
C24_AnomalyDataIsTheFlagged ==
  AnomaliesReturned =>
    LET view == resp.out.view
        ad == resp.out.anomaly_data
        flagged == {j \in 1..Len(view) : view[j].anomaly = 1}
    IN  /\ Len(ad) = Cardinality(flagged)
        /\ {ad[i].id : i \in 1..Len(ad)} = {view[j].id : j \in flagged}
        /\ \A i \in 1..Len(ad) :
             /\ ad[i].is_anomaly = TRUE
             /\ \E j \in flagged :
                  /\ ad[i].id = view[j].id
                  /\ ad[i].precio_por_tableta = view[j].precio_por_tableta
                  /\ ad[i].nombre_comercial = view[j].nombre_comercial
                  /\ ad[i].principio_activo = view[j].principio_activo
                  /\ ad[i].fabricante = view[j].fabricante
        /\ \A i \in 1..(Len(ad) - 1) :
             ad[i].precio_por_tableta >= ad[i + 1].precio_por_tableta

\* two records of different prices flagged, others left normal
C24_Witness ==
  /\ AnomaliesReturned
  /\ Len(resp.out.anomaly_data) >= 2
  /\ resp.out.anomaly_data[1].precio_por_tableta
       > resp.out.anomaly_data[2].precio_por_tableta
  /\ resp.out.stats.normal_count >= 1

(***************************************************************************)
(* The responses of the API                                                *)
(***************************************************************************)
AnalyticsOps ==
  {"api_summary", "api_histogram", "api_boxplot", "api_clusters",
   "api_anomalies"}

\* C25 as stated: every result of an analytics operation reaches the caller
\* in a wrapper whose status is success or error, never as an unhandled
\* failure, and an error carries a message and something that tells its
\* kind (here: the status code of the response).
C25_EveryResultWrapped ==
  resp.op \in AnalyticsOps =>
    /\ resp.response.status \in {"success", "error"}
    /\ resp.response.status = "error" =>
         {"message", "code"} \subseteq DOMAIN resp.response

(***************************************************************************)
(* Concurrent callers.  The Flask server runs each request in a thread of  *)
(* its own, and all handlers share the one DataService of app.py: df is    *)
(* that object's Dataset, the only state the threads share.  A call reads  *)
(* it once, in the copy at the head of filter_data, and works on locals    *)
(* from there on.  Here req holds the build of the libraries and the       *)
(* Dataset as loaded, and resp the threads: where each one is (pc), the    *)
(* call it makes, its copy of the Dataset and the result it has computed.  *)
(***************************************************************************)
\* request threads running at a time
MaxThreads == 2

Threads == 1..MaxThreads

ThreadCalls ==
  {[op |-> "filter_data", p |-> [FilterArgs EXCEPT !.sort_by = "fabricante"]],
   [op |-> "get_summary_stats", p |-> [active_ingredient |-> Some("A"), manufacturer |-> None]],
   [op |-> "get_histogram_data",
    p |-> [active_ingredient |-> None, manufacturer |-> None, bins |-> 2]],
   [op |-> "get_boxplot_data",
    p |-> [group_by |-> "fabricante", active_ingredient |-> None, limit |-> Some(10)]],
   [op |-> "get_clustering", p |-> [active_ingredient |-> None, n_clusters |-> 2]],
   [op |-> "get_anomalies", p |-> [active_ingredient |-> Some("A"), contamination |-> 34]]}

\* the outcomes of a call of any of the six operations on the Dataset d,
\* each with the Dataset object as the call leaves it
ServiceOutcomes(d, c) ==
  CASE c.op = "get_summary_stats" ->
         {[self_df |-> d, result |-> s] :
            s \in get_summary_stats(d, c.p.active_ingredient, c.p.manufacturer)}
    [] c.op = "get_histogram_data" ->
         {[self_df |-> d, result |-> h] :
            h \in get_histogram_data(d, c.p.active_ingredient, c.p.manufacturer,
                                     c.p.bins)}
    [] c.op = "get_boxplot_data" ->
         {[self_df |-> d, result |-> b] :
            b \in get_boxplot_data(d, c.p.group_by, c.p.active_ingredient,
                                   c.p.limit)}
    [] OTHER -> OutcomesOf(d, c)

\* call c computed from the copy d of the Dataset while other calls are
\* under way
ServiceOutcome(d, c, build, others) ==
  Draw(Generator(build, others), ServiceOutcomes(d, c))

ThreadSources == {None, Some(ScenarioFile), Some(GroupFile)}

ThreadInit ==
  /\ \E src \in ThreadSources : df = load_data(src)
  /\ \E b \in 0..(MaxBuild - 1) : req = [build |-> b, loaded |-> df]
  /\ resp = [op |-> "threads",
             pc |-> [t \in Threads |-> "idle"],
             call |-> [t \in Threads |-> None],
             local |-> [t \in Threads |-> None],
             out |-> [t \in Threads |-> None]]

\* thread t enters call c and reaches filtered_df = self.df.copy()
Copy(t, c) ==
  /\ resp.pc[t] = "idle"
  /\ resp' = [resp EXCEPT !.pc[t] = "copied", !.call[t] = Some(c),
                          !.local[t] = Some(df)]
  /\ UNCHANGED <<df, req>>

\* thread t runs the rest of its call, on its copy; an assignment made to
\* the Dataset object itself lands in the shared Dataset
Compute(t) ==
  /\ resp.pc[t] = "copied"
  /\ \E out \in {ServiceOutcome(resp.local[t][1], resp.call[t][1], req.build,
                                Cardinality({u \in Threads \ {t} :
                                               resp.pc[u] # "idle"}))} :
       /\ resp' = [resp EXCEPT !.pc[t] = "done", !.out[t] = Some(out.result)]
       /\ df' = IF out.self_df = resp.local[t][1] THEN df ELSE out.self_df
  /\ UNCHANGED req

\* thread t hands its result to its caller and is free again
Deliver(t) ==
  /\ resp.pc[t] = "done"
  /\ resp' = [resp EXCEPT !.pc[t] = "idle", !.call[t] = None,
                          !.local[t] = None, !.out[t] = None]
  /\ UNCHANGED <<df, req>>

ThreadNext ==
  \/ \E t \in Threads, c \in ThreadCalls : Copy(t, c)
  \/ \E t \in Threads : Compute(t)
  \/ \E t \in Threads : Deliver(t)

ThreadSpec == ThreadInit /\ [][ThreadNext]_vars

\* the result of call c run alone on the Dataset as loaded
AloneResult(c) == ServiceOutcome(req.loaded, c, req.build, 0).result

\* C26: however the calls of the threads interleave, no call changes the
\* Dataset the threads share, and every call computes the result it computes
\* when it runs alone on the Dataset as loaded.
C26_ConcurrentCallsAsAlone ==
  /\ df = req.loaded
  /\ \A t \in Threads :
       resp.pc[t] = "done" => resp.out[t][1] = AloneResult(resp.call[t][1])

\* a clustering and an anomaly detection under way at the same time, both
\* computed, each with a result
C26_Witness ==
  /\ resp.pc[1] = "done"
  /\ resp.pc[2] = "done"
  /\ resp.call[1][1].op = "get_clustering"
  /\ resp.call[2][1].op = "get_anomalies"
  /\ resp.out[1][1].status = "ok"
  /\ resp.out[2][1].status = "ok"
  /\ Len(resp.out[1][1].view) >= 5

(***************************************************************************)
(* Loading.  Here req is what the loader finds on disk and df the module   *)
(* variable of api/server.py (the attribute of the DataService), None      *)
(* until load_data has run.                                                *)
(***************************************************************************)
LoadInit ==
  /\ req \in Sources
  /\ df = None
  /\ resp = NoResponse

\* load_data() at start-up
Load ==
  /\ resp = NoResponse
  /\ df' = load_data(req)
  /\ resp' = [op |-> "load_data"]
  /\ UNCHANGED req

LoadNext == Load

LoadSpec == LoadInit /\ [][LoadNext]_vars

\* C27: after load_data the Dataset holds the lines of the file whose price
\* is a number, in the order of the file, each with that number as its
\* price, and no other line; without a file it is the empty DataFrame.
C27_LoadedPricesNumeric ==
  resp.op = "load_data" =>
    IF req = None THEN df = EmptyFrame
    ELSE LET file == req[1]
             kept == {i \in 1..Len(file) : file[i].precio_por_tableta # <<>>}
         IN  /\ df.cols = Columns
             /\ Len(df.rows) = Cardinality(kept)
             /\ {df.rows[j].id : j \in 1..Len(df.rows)} = {i - 1 : i \in kept}
             /\ \A j \in 1..Len(df.rows) :
                  /\ df.rows[j].precio_por_tableta \in Int
                  /\ df.rows[j].precio_por_tableta
                       = file[df.rows[j].id + 1].precio_por_tableta[1]
                  /\ j > 1 => df.rows[j - 1].id < df.rows[j].id

\* a file of three lines, one of them with a price that is not a number,
\* loaded as two records
C27_Witness ==
  /\ resp.op = "load_data"
  /\ req # None
  /\ Len(req[1]) = 3
  /\ req[1][2].precio_por_tableta = <<>>
  /\ Len(df.rows) = 2

\* the responses of the two implementations to the request in req on the
\* Dataset df
AppResponses ==
  CASE resp.op = "api_summary" -> app_get_summary(df, req)
    [] resp.op = "api_histogram" -> app_get_histogram(df, req)
    [] resp.op = "api_boxplot" -> app_get_boxplot(df, req)
    [] resp.op = "api_clusters" -> {o.response : o \in app_get_clusters(df, req)}
    [] resp.op = "api_anomalies" -> {o.response : o \in app_get_anomalies(df, req)}

ServerResponses ==
  CASE resp.op = "api_summary" -> server_get_summary(df, req)
    [] resp.op = "api_histogram" -> server_get_histogram(df, req)
    [] resp.op = "api_boxplot" -> server_get_boxplot(df, req)
    [] resp.op = "api_clusters" -> {o.response : o \in server_get_clusters(df, req)}
    [] resp.op = "api_anomalies" -> {o.response : o \in server_get_anomalies(df, req)}

\* C28 as stated: for the same Dataset and the same request, the handlers of
\* app.py and those of api/server.py give the same response on /api/summary,
\* /api/histogram, /api/boxplot, /api/ml/clusters and /api/ml/anomalies.
C28_ImplementationsAgree ==
  resp.op \in AnalyticsOps => AppResponses = ServerResponses

(***************************************************************************)
(* The dashboard of src/dash_app.py.  Here df is the Dataset of its        *)
(* DataService, req the build of the libraries and the values of the       *)
(* controls of the page, and resp what the page shows: the three outputs   *)
(* of update_data, the button that triggered it, and whether a control has *)
(* been touched since.                                                     *)
(***************************************************************************)
\* the files the dashboard starts on: its layout needs a largest price
DashSources ==
  {Some(f) : f \in {g \in UNION {[1..n -> RawPool] : n \in 1..MaxRepeatRows} :
                      Len(load_data(Some(g)).rows) > 0}
                   \cup {ScenarioFile, GroupFile}}

\* value=[0, df['precio_por_tableta'].max()]
FullPriceRange(d) == <<0, MaxOf(Prices(d.rows), Len(d.rows))>>

\* the value each control has in the layout
ControlDefaults(d) ==
  [active_ingredient |-> "all", manufacturer |-> "all", concentration |-> "all",
   channel |-> "all", price_range |-> FullPriceRange(d), viz_type |-> "bar"]

\* the values the user can give the controls
ControlValues(d) ==
  [active_ingredient : {"all", "A", "B"},
   manufacturer : {"all", "M"},
   concentration : {"all"},
   channel : {"all", "k1"},
   price_range : {FullPriceRange(d), <<2, FullPriceRange(d)[2]>>},
   viz_type : {"bar", "histogram"}]

\* 'all' of a dropdown means no filter
Chosen(value) == IF value = "all" THEN None ELSE Some(value)

\* the figure, kept as its kind and what it is drawn from
create_visualization(rows, viz_type, active_ingredient) ==
  IF Len(rows) = 0 THEN [message |-> "No data available for the selected filters."]
  ELSE IF viz_type = "bar"
    THEN [kind |-> "bar",
          group_col |-> IF TruthyStr(active_ingredient) THEN "fabricante"
                        ELSE "principio_activo",
          data |-> rows]
    ELSE [kind |-> viz_type, data |-> rows]

create_data_table(rows) ==
  IF Len(rows) = 0 THEN [message |-> "No data available for the selected filters."]
  ELSE [data |-> rows]

create_summary_stats(rows) ==
  IF Len(rows) = 0 THEN [message |-> "No data available for the selected filters."]
  ELSE [count |-> Len(rows),
        min_price |-> SeriesMin(Prices(rows)),
        max_price |-> SeriesMax(Prices(rows)),
        avg_price |-> SeriesMean(Prices(rows)),
        median_price |-> SeriesMedian(Prices(rows))]

\* update_data: the three outputs for the button trigger and the values c of
\* the controls
update_data(d, build, trigger, c) ==
  LET eff == IF trigger = Some("reset-filters") THEN ControlDefaults(d) ELSE c
      ai == Chosen(eff.active_ingredient)
      v == Draw(Generator(build, 0),
                filter_data(d, [FilterArgs EXCEPT
                                  !.active_ingredient = ai,
                                  !.manufacturer = Chosen(eff.manufacturer),
                                  !.concentration = Chosen(eff.concentration),
                                  !.channel = Chosen(eff.channel),
                                  !.min_price = Some(eff.price_range[1]),
                                  !.max_price = Some(eff.price_range[2]),
                                  !.limit = Some(1000)]))
  IN  [visualization |-> create_visualization(v.rows, eff.viz_type, ai),
       table |-> create_data_table(head(v.rows, 50)),
       stats |-> create_summary_stats(v.rows)]

\* the page as first served: the callback has run without a trigger
DashInit ==
  /\ \E src \in DashSources : df = load_data(src)
  /\ \E b \in 0..(MaxBuild - 1) : req = [build |-> b, controls |-> ControlDefaults(df)]
  /\ resp = [op |-> "dash", trigger |-> None, touched |-> FALSE,
             shown |-> update_data(df, req.build, None, req.controls)]

\* the user gives a control another value
SetControl(c) ==
  /\ c # req.controls
  /\ \E name \in DOMAIN c : \A other \in DOMAIN c \ {name} : c[other] = req.controls[other]
  /\ req' = [req EXCEPT !.controls = c]
  /\ resp' = [resp EXCEPT !.touched = TRUE]
  /\ UNCHANGED df

\* a click on Apply Filters or on Reset Filters runs update_data with the
\* values of the controls as its State
Click(button) ==
  /\ resp' = [op |-> "dash", trigger |-> Some(button), touched |-> FALSE,
              shown |-> update_data(df, req.build, Some(button), req.controls)]
  /\ UNCHANGED <<df, req>>

DashNext ==
  \/ \E c \in ControlValues(df) : SetControl(c)
  \/ \E button \in {"apply-filters", "reset-filters"} : Click(button)

DashSpec == DashInit /\ [][DashNext]_vars

\* what the page shows of the unfiltered data
UnfilteredShown ==
  LET v == Draw(Generator(req.build, 0),
                filter_data(df, [FilterArgs EXCEPT !.limit = Some(1000)]))
  IN  [visualization |-> create_visualization(v.rows, "bar", None),
       table |-> create_data_table(head(v.rows, 50)),
       stats |-> create_summary_stats(v.rows)]

\* C29 as stated: a click on Reset Filters shows the unfiltered data, and a
\* click on Apply Filters that follows it with no control touched in between
\* shows what the reset showed.
C29_ApplyAfterResetShowsTheSame ==
  [][/\ resp'.trigger = Some("reset-filters") => resp'.shown = UnfilteredShown
     /\ (resp.trigger = Some("reset-filters") /\ ~resp.touched
           /\ resp'.trigger = Some("apply-filters"))
          => resp'.shown = resp.shown]_vars

(***************************************************************************)
(* The refinement loop of KMeans.fit, one round at a time.  Here df is the *)
(* Dataset, req the prices of the view and the number of clusters, and     *)
(* resp the state of the loop: its centres, its labels, the rounds made.   *)
(***************************************************************************)
\* a round that updates the centres and neither counts nor stops
LloydStep_NoStop(a, s) ==
  [s EXCEPT !.centers = Update(a, Assign(a, s.centers), s.centers),
            !.labels = Assign(a, s.centers)]

\* one round of the loop: assign every point to its nearest centre; stop
\* when the labels are those of the round before or max_iter rounds are made,
\* else recompute the centres and count the round
LloydStep(a, s) ==
  LET next == Assign(a, s.centers)
  IN  IF s.n_iter >= KMeansMaxIter \/ next = s.labels
        THEN [s EXCEPT !.pc = "stopped", !.labels = next]
        ELSE [s EXCEPT !.centers = Update(a, next, s.centers), !.labels = next,
                       !.n_iter = @ + 1]

\* get_clustering has its view and a valid k, and the centres are seeded
LloydInit ==
  /\ \E src \in Sources : df = load_data(src)
  /\ \E ai \in {None, Some("A")} :
       \E v \in filter_data(df, [FilterArgs EXCEPT !.active_ingredient = ai]) :
         /\ v.status = "ok"
         /\ \E k \in 1..Min2(Len(v.rows), 3) :
              /\ req = [prices |-> Prices(v.rows), n_clusters |-> k]
              /\ \E seed \in Seedings(Prices(v.rows), k) :
                   resp = [op |-> "fit", pc |-> "loop",
                           centers |-> [c \in 1..k |-> Frac(req.prices[seed[c]], 1)],
                           labels |-> <<>>, n_iter |-> 0]

Iterate ==
  /\ resp.pc = "loop"
  /\ resp' = LloydStep(req.prices, resp)
  /\ UNCHANGED <<df, req>>

\* fit_predict returns the labels
ReturnLabels ==
  /\ resp.pc = "stopped"
  /\ resp' = [resp EXCEPT !.pc = "returned"]
  /\ UNCHANGED <<df, req>>

LloydNext == Iterate \/ ReturnLabels

\* the interpreter keeps running the call
LloydSpec == LloydInit /\ [][LloydNext]_vars /\ WF_vars(LloydNext)

\* C30: for every view and every valid k the refinement stops, with labels
\* that no longer change or after max_iter rounds, never after more, and the
\* labels are returned.
C30_RefinementTerminates ==
  /\ <>(resp.pc = "returned")
  /\ [](resp.n_iter <= KMeansMaxIter)
  /\ [](resp.pc # "loop" =>
          \/ resp.n_iter = KMeansMaxIter
          \/ resp.labels = Assign(req.prices, resp.centers))

\* a refinement into two clusters returned after a round in which labels
\* changed
C30_Witness ==
  /\ resp.op = "fit"
  /\ resp.pc = "returned"
  /\ req.n_clusters = 2
  /\ resp.n_iter >= 2

====
